---- MODULE Spec2Model ----
(***************************************************************************)
(* Rule-learning and rule-selection engine of personal-ai-os.              *)
(*                                                                         *)
(* Fixed-point conventions used throughout:                                *)
(*   - confidences, similarities and thresholds are integers in            *)
(*     thousandths (0.5 is 500, 0.85 is 850);                              *)
(*   - datetimes are integers in hours since an epoch; a timedelta's       *)
(*     .days is the floor of the hour difference divided by 24;            *)
(*   - None is the integer None for optional numbers and datetimes and     *)
(*     the empty sequence for an optional embedding (both are falsy in     *)
(*     the source).                                                        *)
(***************************************************************************)
EXTENDS Integers, Sequences, FiniteSets, Bags, TLC

VARIABLES
    \* ---- calculate_confidence call (core/algorithms.py) ----
    conf_call,
    \* ---- find_similar_rule, merge_rules and rank_rules calls ----
    sim_call,
    merge_call,
    rank_call,
    \* ---- one run of process_correction, stage by stage ----
    pipe,
    \* ---- select_rules_for_prompt and build_rules_section calls ----
    select_call,
    section_call, truncate_call,
    \* ---- sessions in flight: a handler run statement by statement ----
    txn,
    \* ---- durable store, clock, cache and vector index ----
    utcnow,
    rules,
    audit_log,
    interactions,
    vector_index,
    rule_cache,
    next_id,
    last_result,
    \* ---- how many audit events a run may collect ----
    audit_budget

vars == <<conf_call, sim_call, merge_call, rank_call, pipe, select_call, section_call, truncate_call, txn,
          utcnow, rules, audit_log, interactions, vector_index,
          rule_cache, next_id, last_result, audit_budget>>

(***************************************************************************)
(* Settings (config.py) in thousandths.                                    *)
(***************************************************************************)
confidence_threshold == 300
decay_rate == 50
archive_threshold == 200
similarity_threshold == 850

None == -1

\* bounds of the store model
MaxUsers == 1
MaxRuleIds == 2
MaxInteractions == 1
MaxAudit == 3
MaxClockJumps == 2

HoursPerDay == 24

Min(a, b) == IF a <= b THEN a ELSE b
Max(a, b) == IF a >= b THEN a ELSE b

(***************************************************************************)
(* core/algorithms.py : calculate_confidence                               *)
(***************************************************************************)
\* (datetime.utcnow() - last_applied_at).days
DaysSince(now, last) == (now - last) \div HoursPerDay

\* faulty variant: the decay penalty is not capped at 0.4
calculate_confidence_uncapped_penalty(base_confidence, times_reinforced, last_applied_at, now) ==
    LET reinforcement_bonus == Min(times_reinforced * 100, 450)
        decay_penalty ==
            IF last_applied_at # None
            THEN (DaysSince(now, last_applied_at) \div 7) * decay_rate
            ELSE 0
        confidence == base_confidence + reinforcement_bonus - decay_penalty
    IN  Max(100, Min(950, confidence))

\* faulty variant: the result is clamped from above only
calculate_confidence_no_floor(base_confidence, times_reinforced, last_applied_at, now) ==
    LET reinforcement_bonus == Min(times_reinforced * 100, 450)
        decay_penalty ==
            IF last_applied_at # None
            THEN Min((DaysSince(now, last_applied_at) \div 7) * decay_rate, 400)
            ELSE 0
        confidence == base_confidence + reinforcement_bonus - decay_penalty
    IN  Min(950, confidence)

\* faulty variant: the reinforcement bonus wraps around instead of saturating
calculate_confidence_wrapping_bonus(base_confidence, times_reinforced, last_applied_at, now) ==
    LET reinforcement_bonus == (times_reinforced * 100) % 450
        decay_penalty ==
            IF last_applied_at # None
            THEN Min((DaysSince(now, last_applied_at) \div 7) * decay_rate, 400)
            ELSE 0
        confidence == base_confidence + reinforcement_bonus - decay_penalty
    IN  Max(100, Min(950, confidence))

calculate_confidence(base_confidence, times_reinforced, last_applied_at, now) ==
    LET reinforcement_bonus == Min(times_reinforced * 100, 450)
        decay_penalty ==
            IF last_applied_at # None
            THEN Min((DaysSince(now, last_applied_at) \div 7) * decay_rate, 400)
            ELSE 0
        confidence == base_confidence + reinforcement_bonus - decay_penalty
    IN  Max(100, Min(950, confidence))

(***************************************************************************)
(* Python values.  A dict is a record; dict.get(key, default) looks the    *)
(* key up and yields the default when the dict has no such key.  An        *)
(* optional list or string is a sequence, None being the empty one; a      *)
(* sequence is truthy exactly when it is not empty.                        *)
(***************************************************************************)
HasKey(d, key) == key \in DOMAIN d
Get(d, key, default) == IF HasKey(d, key) THEN d[key] ELSE default
Truthy(s) == s # <<>>

\* datetime.isoformat() and datetime.fromisoformat(): a datetime value in a
\* dict is <<"datetime", h>>, its ISO string is <<"str", h>>
datetime(h) == <<"datetime", h>>
isoformat(h) == <<"str", h>>
isinstance_str(v) == v[1] = "str"
fromisoformat(v) == datetime(v[2])
hours(v) == v[2]

(***************************************************************************)
(* core/algorithms.py : cosine_similarity                                  *)
(* Vectors are integer sequences; np.linalg.norm is the integer square     *)
(* root of the sum of squares (exact on the vectors used here, whose norms *)
(* are integers) and the quotient is kept in thousandths.                  *)
(***************************************************************************)
RECURSIVE dot(_, _)
dot(v1, v2) ==
    IF v1 = <<>> THEN 0
    ELSE Head(v1) * Head(v2) + dot(Tail(v1), Tail(v2))

isqrt(x) == CHOOSE r \in 0..x : r * r <= x /\ (r + 1) * (r + 1) > x
norm(v) == isqrt(dot(v, v))

cosine_similarity(vec1, vec2) ==
    LET dot_product == dot(vec1, vec2)
        norm1 == norm(vec1)
        norm2 == norm(vec2)
    IN  IF norm1 = 0 \/ norm2 = 0 THEN 0
        ELSE (dot_product * 1000) \div (norm1 * norm2)

(***************************************************************************)
(* core/algorithms.py : find_similar_rule                                  *)
(* Optional[dict] results are sequences: <<>> is None, <<rule>> a rule.    *)
(***************************************************************************)
\* threshold = threshold or settings.similarity_threshold
\* (None and 0.0 are both falsy)
threshold_or_default(threshold) ==
    IF threshold = None \/ threshold = 0 THEN similarity_threshold ELSE threshold

RECURSIVE find_similar_loop(_, _, _)
find_similar_loop(new_rule_embedding, existing_rules, threshold) ==
    IF existing_rules = <<>> THEN <<>>
    ELSE LET rule == Head(existing_rules)
         IN  IF /\ Truthy(Get(rule, "embedding", <<>>))
                /\ cosine_similarity(new_rule_embedding, rule.embedding) >= threshold
             THEN <<rule>>
             ELSE find_similar_loop(new_rule_embedding, Tail(existing_rules), threshold)

find_similar_rule(new_rule_embedding, existing_rules, threshold) ==
    find_similar_loop(new_rule_embedding, existing_rules, threshold_or_default(threshold))

(***************************************************************************)
(* core/algorithms.py : merge_rules                                        *)
(***************************************************************************)
\* {**d, key: value}
DictSet(d, key, value) ==
    [k \in DOMAIN d \cup {key} |-> IF k = key THEN value ELSE d[k]]

\* faulty variant: the reinforced confidence is not capped at 0.95
merge_rules_uncapped(existing_rule, new_correction, now) ==
    DictSet(DictSet(DictSet(existing_rule,
        "times_reinforced", Get(existing_rule, "times_reinforced", 0) + 1),
        "last_reinforced_at", isoformat(now)),
        "confidence", Get(existing_rule, "confidence", 500) + 100)

merge_rules(existing_rule, new_correction, now) ==
    DictSet(DictSet(DictSet(existing_rule,
        "times_reinforced", Get(existing_rule, "times_reinforced", 0) + 1),
        "last_reinforced_at", isoformat(now)),
        "confidence", Min(950, Get(existing_rule, "confidence", 500) + 100))

(***************************************************************************)
(* core/algorithms.py : rank_rules                                         *)
(* relevance is in thousandths and recency_boost in tenths, so a score is  *)
(* the exact integer confidence * relevance * recency_boost.               *)
(***************************************************************************)
rule_score(rule, context_embedding, now) ==
    LET confidence == Get(rule, "confidence", 500)
        relevance ==
            IF Truthy(context_embedding) /\ Truthy(Get(rule, "embedding", <<>>))
            THEN cosine_similarity(context_embedding, rule.embedding)
            ELSE 1000
        last_applied0 == Get(rule, "last_applied_at", <<>>)
        recency_boost ==
            IF Truthy(last_applied0)
            THEN LET last_applied == IF isinstance_str(last_applied0)
                                     THEN fromisoformat(last_applied0)
                                     ELSE last_applied0
                 IN  IF now - hours(last_applied) < 24 THEN 12 ELSE 10
            ELSE 10
    IN  confidence * relevance * recency_boost

\* the loop of rank_rules: (rule, score) pairs of the rules at or above
\* settings.confidence_threshold, in input order
RECURSIVE scored_rules(_, _, _)
scored_rules(rule_list, context_embedding, now) ==
    IF rule_list = <<>> THEN <<>>
    ELSE LET rule == Head(rule_list)
             rest == scored_rules(Tail(rule_list), context_embedding, now)
         IN  IF Get(rule, "confidence", 500) >= confidence_threshold
             THEN <<<<rule, rule_score(rule, context_embedding, now)>>>> \o rest
             ELSE rest

\* faulty variant: an unstable sort that puts a later element before its equals
RECURSIVE insert_desc_unstable(_, _)
insert_desc_unstable(sorted, item) ==
    IF sorted = <<>> THEN <<item>>
    ELSE IF Head(sorted)[2] > item[2]
         THEN <<Head(sorted)>> \o insert_desc_unstable(Tail(sorted), item)
         ELSE <<item>> \o sorted

\* list.sort(key=lambda x: x[1], reverse=True): a stable sort, elements of
\* equal key keep their original order also with reverse=True
RECURSIVE insert_desc(_, _)
insert_desc(sorted, item) ==
    IF sorted = <<>> THEN <<item>>
    ELSE IF Head(sorted)[2] >= item[2]
         THEN <<Head(sorted)>> \o insert_desc(Tail(sorted), item)
         ELSE <<item>> \o sorted

RECURSIVE sort_desc(_, _)
sort_desc(sorted, pending) ==
    IF pending = <<>> THEN sorted
    ELSE sort_desc(insert_desc(sorted, Head(pending)), Tail(pending))

\* s[:n] for n >= 0
Take(s, n) == SubSeq(s, 1, Min(n, Len(s)))

rank_rules(rule_list, context_embedding, max_rules, now) ==
    Take(sort_desc(<<>>, scored_rules(rule_list, context_embedding, now)), max_rules)

(***************************************************************************)
(* External collaborators.  A call either raises or returns a value:       *)
(* [raised |-> TRUE] or [raised |-> FALSE, value |-> v].                   *)
(***************************************************************************)
Raised == [raised |-> TRUE]
Returned(v) == [raised |-> FALSE, value |-> v]

\* texts the extraction service produces as rule content, with the vector
\* the embedding service returns for each and the text's length
Contents == {"Avoid bullet points", "Do not use bullet lists", "Be concise"}

EmbeddingOf(text) ==
    CASE text = "Avoid bullet points" -> <<4, 3>>
      [] text = "Do not use bullet lists" -> <<3, 4>>
      [] OTHER -> <<5, 0>>

\* len(text)
ContentLen(text) ==
    CASE text = "Avoid bullet points" -> 19
      [] text = "Do not use bullet lists" -> 23
      [] text = "Be concise" -> 10
      [] OTHER -> 0

\* core/llm.py generate_embedding: ok says whether the provider call succeeds
generate_embedding(text, ok) ==
    IF ok THEN Returned(EmbeddingOf(text)) ELSE Raised

(***************************************************************************)
(* core/algorithms.py : select_rules_for_prompt                            *)
(***************************************************************************)
\* faulty variant: a rule over the budget is skipped and the loop goes on
RECURSIVE select_loop_skipping(_, _, _, _)
select_loop_skipping(ranked, selected, estimated_tokens, max_tokens) ==
    IF ranked = <<>> THEN selected
    ELSE LET rule == Head(ranked)[1]
             rule_tokens == ContentLen(Get(rule, "content", "")) \div 4
         IN  IF estimated_tokens + rule_tokens > max_tokens
             THEN select_loop_skipping(Tail(ranked), selected, estimated_tokens,
                                       max_tokens)
             ELSE select_loop_skipping(Tail(ranked), Append(selected, rule),
                                       estimated_tokens + rule_tokens, max_tokens)

\* estimated token cost of a rule: len(content) // 4
RECURSIVE select_loop(_, _, _, _)
select_loop(ranked, selected, estimated_tokens, max_tokens) ==
    IF ranked = <<>> THEN selected
    ELSE LET rule == Head(ranked)[1]
             rule_tokens == ContentLen(Get(rule, "content", "")) \div 4
         IN  IF estimated_tokens + rule_tokens > max_tokens
             THEN selected
             ELSE select_loop(Tail(ranked), Append(selected, rule),
                              estimated_tokens + rule_tokens, max_tokens)

select_rules_for_prompt(rule_list, context_embedding, max_tokens, now) ==
    select_loop(rank_rules(rule_list, context_embedding, 10, now), <<>>, 0, max_tokens)

(***************************************************************************)
(* models/rule.py : Rule.to_dict.  The dict has no "embedding" key.        *)
(***************************************************************************)
\* round(x, 2) on thousandths
round2(x) == ((x + 5) \div 10) * 10

to_dict(rule) ==
    [id |-> rule.id,
     content |-> rule.content,
     category |-> rule.category,
     confidence |-> round2(rule.confidence),
     times_applied |-> rule.times_applied,
     times_reinforced |-> rule.times_reinforced,
     status |-> rule.status,
     last_applied_at |-> IF rule.last_applied_at # None
                         THEN isoformat(rule.last_applied_at) ELSE <<>>]

(***************************************************************************)
(* core/extraction.py                                                      *)
(***************************************************************************)
correction_keywords ==
    {"don't", "dont", "stop", "never", "always", "instead", "rather",
     "prefer", "please use", "not like", "wrong", "fix", "change"}

\* a message is the sequence of its words, which single spaces separate
\* str.lower() over the words of the messages
lower(word) ==
    CASE word = "Dont" -> "dont"
      [] word = "Please" -> "please"
      [] word = "STOP" -> "stop"
      [] OTHER -> word

\* the words of a keyword
keyword_words(kw) ==
    CASE kw = "please use" -> <<"please", "use">>
      [] kw = "not like" -> <<"not", "like">>
      [] OTHER -> <<kw>>

\* part in word, for a lower-case word of the messages
word_has(word, part) ==
    word = part \/ <<word, part>> \in {<<"prefix", "fix">>, <<"unchanged", "change">>}
word_ends_with(word, part) == word = part
word_starts_with(word, part) == word = part \/ <<word, part>> \in {<<"used", "use">>}

\* kw in user_message.lower(): the keyword is a substring of the message
keyword_in(kw, user_message) ==
    LET words == keyword_words(kw)
        n == Len(user_message)
    IN  IF Len(words) = 1
        THEN \E i \in 1..n : word_has(lower(user_message[i]), words[1])
        ELSE \E i \in 1..(n - 1) :
                /\ word_ends_with(lower(user_message[i]), words[1])
                /\ word_starts_with(lower(user_message[i + 1]), words[2])

\* faulty variant: the message is not lower-cased before the search
contains_keyword_case_sensitive(user_message) ==
    \E kw \in correction_keywords :
        LET words == keyword_words(kw)
            n == Len(user_message)
        IN  IF Len(words) = 1
            THEN \E i \in 1..n : word_has(user_message[i], words[1])
            ELSE \E i \in 1..(n - 1) :
                    /\ word_ends_with(user_message[i], words[1])
                    /\ word_starts_with(user_message[i + 1], words[2])

\* any(kw in user_message.lower() for kw in correction_keywords)
contains_keyword(user_message) ==
    \E kw \in correction_keywords : keyword_in(kw, user_message)

\* detect_correction: response is the outcome of extract_json_response
detect_correction(user_message, response) ==
    IF ~response.raised
    THEN [is_correction |-> Get(response.value, "is_correction", FALSE),
          correction_type |-> Get(response.value, "correction_type", "none"),
          confidence |-> Get(response.value, "confidence", 0)]
    ELSE LET is_correction == contains_keyword(user_message)
         IN  [is_correction |-> is_correction,
              correction_type |-> IF is_correction THEN "style" ELSE "none",
              confidence |-> IF is_correction THEN 500 ELSE 0]

\* faulty variant: an invalid extraction is not rejected
extract_rule_ignoring_validity(user_correction, response) ==
    IF response.raised THEN <<>>
    ELSE IF Get(response.value, "rule", "") = "" THEN <<>>
    ELSE <<[content |-> response.value.rule,
            category |-> Get(response.value, "category", "style"),
            original_correction |-> user_correction]>>

\* extract_rule: None (<<>>) or the rule data
extract_rule(user_correction, response) ==
    IF response.raised THEN <<>>
    ELSE IF ~Get(response.value, "is_valid", TRUE) THEN <<>>
    ELSE IF Get(response.value, "rule", "") = "" THEN <<>>
    ELSE <<[content |-> response.value.rule,
            category |-> Get(response.value, "category", "style"),
            original_correction |-> user_correction]>>

\* check_duplicate_rule: the embedding failure is caught and gives None
check_duplicate_rule(new_rule_content, existing_rules, embedding_ok) ==
    LET new_embedding == generate_embedding(new_rule_content, embedding_ok)
    IN  IF new_embedding.raised THEN <<>>
        ELSE find_similar_rule(new_embedding.value, existing_rules, None)

\* faulty variant: step 3 without its try/except, the embedding failure propagates
attach_embedding_unguarded(rule_data, embedding_ok) ==
    LET embedding == generate_embedding(rule_data.content, embedding_ok)
    IN  IF embedding.raised
        THEN [raised |-> TRUE]
        ELSE [raised |-> FALSE, rule |-> DictSet(rule_data, "embedding", embedding.value)]

\* step 3 of process_correction: the embedding failure is caught and the
\* rule data gets embedding None
attach_embedding(rule_data, embedding_ok) ==
    LET embedding == generate_embedding(rule_data.content, embedding_ok)
    IN  IF embedding.raised
        THEN [raised |-> FALSE, rule |-> DictSet(rule_data, "embedding", <<>>)]
        ELSE [raised |-> FALSE, rule |-> DictSet(rule_data, "embedding", embedding.value)]

\* process_correction; embedding_calls counts the calls of the embedding
\* service the run made
process_correction(user_correction, existing_rules, response, dup_ok, emb_ok) ==
    LET rule_data == extract_rule(user_correction, response)
    IN  IF rule_data = <<>>
        THEN [raised |-> FALSE, status |-> "extraction_failed", embedding_calls |-> 0]
        ELSE LET duplicate == check_duplicate_rule(rule_data[1].content,
                                                   existing_rules, dup_ok)
             IN  IF duplicate # <<>>
                 THEN [raised |-> FALSE, status |-> "duplicate_found",
                       existing_rule |-> duplicate[1], embedding_calls |-> 1]
                 ELSE LET attached == attach_embedding(rule_data[1], emb_ok)
                      IN  IF attached.raised
                          THEN [raised |-> TRUE, status |-> "raised",
                                embedding_calls |-> 2]
                          ELSE [raised |-> FALSE, status |-> "rule_created",
                                rule |-> attached.rule, embedding_calls |-> 2]

(***************************************************************************)
(* Idle values of the variables a specification does not use.              *)
(***************************************************************************)
Users == 1..MaxUsers
\* last_result describes the latest handler run: the handler, the id it
\* was addressed to and what it returned
NoResult == [op |-> "none"]
CacheMiss == [present |-> FALSE, data |-> <<>>]

IdleConf == conf_call = [result |-> None]
IdleSim == sim_call = [called |-> FALSE]
IdleMerge == merge_call = [called |-> FALSE]
IdleRank == rank_call = [called |-> FALSE]

IdleStore ==
    /\ utcnow = 0
    /\ rules = <<>>
    /\ audit_log = EmptyBag
    /\ interactions = <<>>
    /\ vector_index = <<>>
    /\ rule_cache = [u \in Users |-> CacheMiss]
    /\ next_id = 1
    /\ last_result = NoResult
    /\ audit_budget = MaxAudit

IdlePipe == pipe = [pc |-> "idle"]
IdleSelect == select_call = [called |-> FALSE]
IdleSection == section_call = [called |-> FALSE]
IdleTruncate == truncate_call = [called |-> FALSE]
IdleSession == [pc |-> "idle"]
IdleTxn == txn = [sweep |-> IdleSession, request |-> IdleSession, second |-> IdleSession]

callVars == <<conf_call, sim_call, merge_call, rank_call, pipe, select_call, section_call, truncate_call, txn>>
storeVars == <<utcnow, rules, audit_log, interactions, vector_index,
               rule_cache, next_id, last_result, audit_budget>>

(***************************************************************************)
(* SpecConf : calculate_confidence applied to bounded inputs.              *)
(***************************************************************************)
MaxBaseSteps == 4
MaxReinforcedArg == 6
MaxWeeksArg == 9

BaseConfidences == {500 + 125 * k : k \in (0 - MaxBaseSteps - 1)..MaxBaseSteps}
HourOffsets == {0, 23, 167}
ConfTimes == {168 * w + o : w \in 0..MaxWeeksArg, o \in HourOffsets}
ConfNow0 == 168

InitConf ==
    /\ conf_call \in [base_confidence : BaseConfidences,
                      times_reinforced : 0..2,
                      last_applied_at : {None, 0, 145, ConfNow0, ConfNow0 + 30},
                      now : {ConfNow0},
                      result : {None}]
    /\ IdleSim /\ IdleMerge /\ IdleRank /\ IdlePipe /\ IdleSelect /\ IdleSection /\ IdleTruncate /\ IdleTxn /\ IdleStore

\* one call of calculate_confidence on the current arguments
CallCalculateConfidence ==
    /\ conf_call' = [conf_call EXCEPT !.result =
            calculate_confidence(conf_call.base_confidence, conf_call.times_reinforced,
                                 conf_call.last_applied_at, conf_call.now)]
    /\ UNCHANGED <<sim_call, merge_call, rank_call, pipe, select_call, section_call, truncate_call, txn, storeVars>>

\* the same call with times_reinforced one higher, everything else fixed
CallWithMoreReinforcement ==
    /\ conf_call.result # None
    /\ conf_call.times_reinforced < MaxReinforcedArg
    /\ conf_call' = [conf_call EXCEPT
            !.times_reinforced = @ + 1,
            !.result = calculate_confidence(conf_call.base_confidence,
                                            conf_call.times_reinforced + 1,
                                            conf_call.last_applied_at, conf_call.now)]
    /\ UNCHANGED <<sim_call, merge_call, rank_call, pipe, select_call, section_call, truncate_call, txn, storeVars>>

\* the same call at a later wall-clock time, everything else fixed
CallLater ==
    /\ conf_call.result # None
    /\ \E t \in ConfTimes :
        /\ t > conf_call.now
        /\ conf_call' = [conf_call EXCEPT
                !.now = t,
                !.result = calculate_confidence(conf_call.base_confidence,
                                                conf_call.times_reinforced,
                                                conf_call.last_applied_at, t)]
    /\ UNCHANGED <<sim_call, merge_call, rank_call, pipe, select_call, section_call, truncate_call, txn, storeVars>>

NextConf == CallCalculateConfidence \/ CallWithMoreReinforcement \/ CallLater

SpecConf == InitConf /\ [][NextConf]_vars

(***************************************************************************)
(* SpecSim : find_similar_rule applied to bounded inputs.                  *)
(***************************************************************************)
MaxExisting == 3

Embeddings == {<<5, 0>>, <<4, 3>>, <<3, 4>>, <<0, 0>>}
\* a dict built without an "embedding" key, as Rule.to_dict builds it
NoKey == <<None>>

RuleDict(i, e) == IF e = NoKey THEN [id |-> i] ELSE [id |-> i, embedding |-> e]

RuleLists(max) ==
    UNION {{[i \in 1..n |-> RuleDict(i, es[i])] :
                es \in [1..n -> Embeddings \cup {<<>>, NoKey}]} : n \in 0..max}

InitSim ==
    /\ sim_call \in [new_rule_embedding : {<<4, 3>>, <<5, 0>>},
                     existing_rules : RuleLists(MaxExisting),
                     threshold : {None, 0, 600, 800, 960},
                     result : {<<>>},
                     called : {FALSE}]
    /\ IdleConf /\ IdleMerge /\ IdleRank /\ IdlePipe /\ IdleSelect /\ IdleSection /\ IdleTruncate /\ IdleTxn /\ IdleStore

CallFindSimilarRule ==
    /\ ~sim_call.called
    /\ sim_call' = [sim_call EXCEPT
            !.called = TRUE,
            !.result = find_similar_rule(sim_call.new_rule_embedding,
                                         sim_call.existing_rules, sim_call.threshold)]
    /\ UNCHANGED <<conf_call, merge_call, rank_call, pipe, select_call, section_call, truncate_call, txn, storeVars>>

NextSim == CallFindSimilarRule

SpecSim == InitSim /\ [][NextSim]_vars

(***************************************************************************)
(* SpecMerge : merge_rules applied to bounded inputs.                      *)
(***************************************************************************)
MaxMergeReinforced == 3

MergeConfidences == {100, 500, 850, 900, 950}
Statuses == {"active", "archived", "disabled"}

\* rule dicts with and without a last_reinforced_at key (Rule.to_dict has none)
MergeInputs ==
    [id : {1}, confidence : MergeConfidences,
     times_reinforced : 0..MaxMergeReinforced, status : Statuses]
    \cup
    [id : {1}, confidence : MergeConfidences,
     times_reinforced : 0..MaxMergeReinforced, status : Statuses,
     last_reinforced_at : {<<>>, isoformat(0)}]

InitMerge ==
    /\ merge_call \in [existing_rule : MergeInputs,
                       new_correction : {"use bullet points"},
                       now : {7},
                       result : {<<>>},
                       called : {FALSE}]
    /\ IdleConf /\ IdleSim /\ IdleRank /\ IdlePipe /\ IdleSelect /\ IdleSection /\ IdleTruncate /\ IdleTxn /\ IdleStore

CallMergeRules ==
    /\ ~merge_call.called
    /\ merge_call' = [merge_call EXCEPT
            !.called = TRUE,
            !.result = <<merge_rules(merge_call.existing_rule,
                                     merge_call.new_correction, merge_call.now)>>]
    /\ UNCHANGED <<conf_call, sim_call, rank_call, pipe, select_call, section_call, truncate_call, txn, storeVars>>

NextMerge == CallMergeRules

SpecMerge == InitMerge /\ [][NextMerge]_vars

(***************************************************************************)
(* SpecRank : rank_rules applied to bounded inputs.                        *)
(***************************************************************************)
MaxRankRules == 3
RankNow == 48

RankShapes ==
    [confidence : {250, 300, 600},
     embedding : {<<>>, <<3, 4>>},
     last_applied_at : {<<>>, isoformat(RankNow - 1), datetime(RankNow - 24)}]

RankLists(max) ==
    UNION {{[i \in 1..n |-> [id |-> i,
                             confidence |-> sh[i].confidence,
                             embedding |-> sh[i].embedding,
                             last_applied_at |-> sh[i].last_applied_at]] :
                sh \in [1..n -> RankShapes]} : n \in 0..max}

InitRank ==
    /\ rank_call \in [rules : RankLists(MaxRankRules),
                      context_embedding : {<<>>, <<5, 0>>},
                      max_rules : 0..MaxRankRules,
                      now : {RankNow},
                      result : {<<>>},
                      called : {FALSE}]
    /\ IdleConf /\ IdleSim /\ IdleMerge /\ IdlePipe /\ IdleSelect /\ IdleSection /\ IdleTruncate /\ IdleTxn /\ IdleStore

CallRankRules ==
    /\ ~rank_call.called
    /\ rank_call' = [rank_call EXCEPT
            !.called = TRUE,
            !.result = rank_rules(rank_call.rules, rank_call.context_embedding,
                                  rank_call.max_rules, rank_call.now)]
    /\ UNCHANGED <<conf_call, sim_call, merge_call, pipe, select_call, section_call, truncate_call, txn, storeVars>>

NextRank == CallRankRules

SpecRank == InitRank /\ [][NextRank]_vars

(***************************************************************************)
(* SpecSelect : select_rules_for_prompt applied to bounded inputs.         *)
(***************************************************************************)
MaxSelectRules == 3
MaxTokens == 11
SelectNow == 48

\* a rule dict with or without content; the confidences straddle
\* confidence_threshold
SelectShapes ==
    [confidence : {250, 400, 600}, content : Contents]
    \cup [confidence : {400, 600}]

SelectLists(max) ==
    UNION {{[i \in 1..n |-> IF HasKey(sh[i], "content")
                            THEN [id |-> i, confidence |-> sh[i].confidence,
                                  content |-> sh[i].content]
                            ELSE [id |-> i, confidence |-> sh[i].confidence]] :
                sh \in [1..n -> SelectShapes]} : n \in 0..max}

InitSelect ==
    /\ select_call \in [rules : SelectLists(MaxSelectRules),
                        max_tokens : 0..MaxTokens,
                        now : {SelectNow},
                        result : {<<>>},
                        called : {FALSE}]
    /\ IdleConf /\ IdleSim /\ IdleMerge /\ IdleRank /\ IdlePipe /\ IdleSection /\ IdleTruncate /\ IdleTxn
    /\ IdleStore

CallSelectRulesForPrompt ==
    /\ ~select_call.called
    /\ select_call' = [select_call EXCEPT
            !.called = TRUE,
            !.result = select_rules_for_prompt(select_call.rules, <<>>,
                                               select_call.max_tokens, select_call.now)]
    /\ UNCHANGED <<conf_call, sim_call, merge_call, rank_call, pipe, section_call, truncate_call, txn,
                   storeVars>>

NextSelect == CallSelectRulesForPrompt

SpecSelect == InitSelect /\ [][NextSelect]_vars

(***************************************************************************)
(* core/prompts.py : build_rules_section.  The returned string is the      *)
(* sequence of its lines: a header line "[CATEGORY]", a bullet line per    *)
(* rule, and an empty line between two sections ("\n\n".join).             *)
(***************************************************************************)
\* str.upper on the category names
upper(category) ==
    CASE category = "safety" -> "SAFETY"
      [] category = "logic" -> "LOGIC"
      [] category = "formatting" -> "FORMATTING"
      [] category = "style" -> "STYLE"
      [] category = "tone" -> "TONE"
      [] category = "persona" -> "PERSONA"
      [] category = "domain" -> "DOMAIN"

header_line(category) == [kind |-> "header", text |-> upper(category)]
bullet_line(content) == [kind |-> "bullet", text |-> content]
blank_line == [kind |-> "blank", text |-> ""]

\* faulty variant: logic is placed after formatting
category_order_logic_late == <<"safety", "formatting", "logic", "style", "tone">>

category_order == <<"safety", "logic", "formatting", "style", "tone">>

\* position of a category among the keys of categorized, 0 when absent
key_index(categorized, category) ==
    LET hits == {i \in 1..Len(categorized) : categorized[i].category = category}
    IN  IF hits = {} THEN 0 ELSE CHOOSE i \in hits : TRUE

\* the grouping loop; categorized is the dict in insertion order
RECURSIVE group_by_category(_, _)
group_by_category(rule_list, categorized) ==
    IF rule_list = <<>> THEN categorized
    ELSE LET rule == Head(rule_list)
             category == rule.category
             content == rule.content
             i == key_index(categorized, category)
         IN  IF i = 0
             THEN group_by_category(Tail(rule_list),
                      Append(categorized, [category |-> category, items |-> <<content>>]))
             ELSE group_by_category(Tail(rule_list),
                      [categorized EXCEPT ![i].items = Append(@, content)])

\* "[CATEGORY]" and one bullet per item
format_section(category, items) ==
    <<header_line(category)>> \o [i \in 1..Len(items) |-> bullet_line(items[i])]

\* the loop over category_order
RECURSIVE ordered_sections(_, _, _)
ordered_sections(order, categorized, sections) ==
    IF order = <<>> THEN sections
    ELSE LET i == key_index(categorized, Head(order))
         IN  ordered_sections(Tail(order), categorized,
                 IF i # 0
                 THEN Append(sections, format_section(Head(order), categorized[i].items))
                 ELSE sections)

\* the loop over the remaining categories, in the dict's order
RECURSIVE remaining_sections(_, _)
remaining_sections(categorized, sections) ==
    IF categorized = <<>> THEN sections
    ELSE LET entry == Head(categorized)
             listed == \E k \in 1..Len(category_order) : category_order[k] = entry.category
         IN  remaining_sections(Tail(categorized),
                 IF ~listed
                 THEN Append(sections, format_section(entry.category, entry.items))
                 ELSE sections)

\* "\n\n".join(sections)
RECURSIVE join_sections(_)
join_sections(sections) ==
    IF sections = <<>> THEN <<>>
    ELSE IF Len(sections) = 1 THEN Head(sections)
    ELSE Head(sections) \o <<blank_line>> \o join_sections(Tail(sections))

build_rules_section(rule_list) ==
    IF rule_list = <<>>
    THEN <<[kind |-> "text", text |-> "No specific preferences to apply."]>>
    ELSE LET categorized == group_by_category(rule_list, <<>>)
             sections == remaining_sections(categorized,
                             ordered_sections(category_order, categorized, <<>>))
         IN  join_sections(sections)

(***************************************************************************)
(* SpecSection : build_rules_section applied to bounded inputs.            *)
(***************************************************************************)
MaxSectionRules == 4

Categories == {"safety", "logic", "formatting", "style", "tone", "persona", "domain"}

SectionLists(max) ==
    UNION {[1..n -> [category : Categories, content : {"Be concise", "Avoid bullet points"}]] :
              n \in 0..max}

InitSection ==
    /\ section_call \in [rules : SectionLists(MaxSectionRules),
                         result : {<<>>},
                         called : {FALSE}]
    /\ IdleConf /\ IdleSim /\ IdleMerge /\ IdleRank /\ IdlePipe /\ IdleSelect /\ IdleTxn
    /\ IdleTruncate /\ IdleStore

CallBuildRulesSection ==
    /\ ~section_call.called
    /\ section_call' = [section_call EXCEPT
            !.called = TRUE,
            !.result = build_rules_section(section_call.rules)]
    /\ UNCHANGED <<conf_call, sim_call, merge_call, rank_call, pipe, select_call, txn,
                   truncate_call, storeVars>>

NextSection == CallBuildRulesSection

SpecSection == InitSection /\ [][NextSection]_vars

(***************************************************************************)
(* services/prompt_builder.py : estimate_tokens, truncate_for_context      *)
(* A message is [role, content]; content is its sequence of characters.    *)
(***************************************************************************)
RECURSIVE total_chars(_)
total_chars(messages) ==
    IF messages = <<>> THEN 0
    ELSE Len(Head(messages).content) + total_chars(Tail(messages))

estimate_tokens(messages) == total_chars(messages) \div 4

\* list.insert(index, msg) with 0 <= index <= len
insert(result, index, msg) ==
    SubSeq(result, 1, index) \o <<msg>> \o SubSeq(result, index + 1, Len(result))

\* the loop over reversed(other_messages): the last message first, stopping
\* at the first one that does not fit
RECURSIVE truncate_loop(_, _, _, _, _)
truncate_loop(result, other_messages, current_tokens, max_tokens, index) ==
    IF other_messages = <<>> THEN result
    ELSE LET msg == other_messages[Len(other_messages)]
             msg_tokens == Len(msg.content) \div 4
         IN  IF current_tokens + msg_tokens > max_tokens THEN result
             ELSE truncate_loop(insert(result, index, msg),
                                SubSeq(other_messages, 1, Len(other_messages) - 1),
                                current_tokens + msg_tokens, max_tokens, index)

truncate_for_context(messages, max_tokens) ==
    IF messages = <<>> THEN messages
    ELSE LET has_system == messages[1].role = "system"
             other_messages == IF has_system THEN Tail(messages) ELSE messages
             result == IF has_system THEN <<messages[1]>> ELSE <<>>
         IN  truncate_loop(result, other_messages, estimate_tokens(result),
                           max_tokens, IF has_system THEN 1 ELSE 0)

(***************************************************************************)
(* SpecTruncate : one call of truncate_for_context on a drawn input.       *)
(***************************************************************************)
MaxMessages == 3
MaxContentLen == 4
MaxContextTokens == 3

Roles == {"system", "user", "assistant"}

MessageContents == UNION {[1..n -> {"x"}] : n \in 0..MaxContentLen}

MessageLists == UNION {[1..n -> [role : Roles, content : MessageContents]] : n \in 0..MaxMessages}

InitTruncate ==
    /\ truncate_call \in [messages : MessageLists,
                          max_tokens : 0..MaxContextTokens,
                          result : {<<>>},
                          called : {FALSE}]
    /\ IdleConf /\ IdleSim /\ IdleMerge /\ IdleRank /\ IdlePipe /\ IdleSelect /\ IdleSection
    /\ IdleTxn /\ IdleStore

CallTruncateForContext ==
    /\ ~truncate_call.called
    /\ truncate_call' = [truncate_call EXCEPT
            !.called = TRUE,
            !.result = truncate_for_context(truncate_call.messages,
                                            truncate_call.max_tokens)]
    /\ UNCHANGED <<conf_call, sim_call, merge_call, rank_call, pipe, select_call,
                   section_call, txn, storeVars>>

NextTruncate == CallTruncateForContext

SpecTruncate == InitTruncate /\ [][NextTruncate]_vars

(***************************************************************************)
(* The durable store as one value, so that a service method is a function  *)
(* from store to store and a handler is the composition of the methods it  *)
(* calls followed by its commit.                                           *)
(*   rules        : rule id -> row (models/rule.py Rule); the columns      *)
(*                  that are written and never read by the engine          *)
(*                  (original_correction, created_at, updated_at,          *)
(*                  last_reinforced_at) are left out                       *)
(*   audit_log    : bag of <<event_type, user_id, rule_id>>                *)
(*   interactions : interaction id -> row (models/interaction.py)          *)
(*   vector_index : embedding id (the rule id of "rule_<id>") -> vector    *)
(*   rule_cache   : user id -> cached snapshot (db/redis.py RuleCache)     *)
(***************************************************************************)
DB == [rules |-> rules, audit_log |-> audit_log, interactions |-> interactions,
       vector_index |-> vector_index, rule_cache |-> rule_cache, next_id |-> next_id]

Commit(S) ==
    /\ rules' = S.rules
    /\ audit_log' = S.audit_log
    /\ interactions' = S.interactions
    /\ vector_index' = S.vector_index
    /\ rule_cache' = S.rule_cache
    /\ next_id' = S.next_id

\* function f with key k set to v (k is added when new)
Put(f, k, v) == [x \in DOMAIN f \cup {k} |-> IF x = k THEN v ELSE f[x]]
\* function f without key k
Drop(f, k) == [x \in DOMAIN f \ {k} |-> f[x]]

\* services/rule_engine.py : _log_event
log_event(S, user_id, rule_id, event_type) ==
    [S EXCEPT !.audit_log = @ (+) SetToBag({<<event_type, user_id, rule_id>>})]

\* db/redis.py : RuleCache.invalidate_user_rules
invalidate_user_rules(S, user_id) ==
    [S EXCEPT !.rule_cache[user_id] = CacheMiss]

\* db/vector.py : add_embedding
add_embedding(S, embedding_id, embedding) ==
    [S EXCEPT !.vector_index = Put(@, embedding_id, embedding)]

\* faulty variant: the embedding is indexed without the test "if embedding"
create_rule_always_indexing(S, user_id, content, category, original_correction, embedding) ==
    LET id == S.next_id
        rule == [id |-> id, user_id |-> user_id, content |-> content,
                 category |-> category, confidence |-> 500,
                 times_applied |-> 0, times_reinforced |-> 0,
                 status |-> "active",
                 last_applied_at |-> None,
                 embedding_id |-> id]
        S1 == [S EXCEPT !.rules = Put(@, id, rule), !.next_id = id + 1]
        S2 == add_embedding(S1, id, embedding)
        S3 == log_event(S2, user_id, id, "rule_created")
    IN  invalidate_user_rules(S3, user_id)

\* services/rule_engine.py : create_rule
create_rule(S, user_id, content, category, original_correction, embedding) ==
    LET id == S.next_id
        rule == [id |-> id, user_id |-> user_id, content |-> content,
                 category |-> category, confidence |-> 500,
                 times_applied |-> 0, times_reinforced |-> 0,
                 status |-> "active",
                 last_applied_at |-> None,
                 embedding_id |-> IF Truthy(embedding) THEN id ELSE None]
        S1 == [S EXCEPT !.rules = Put(@, id, rule), !.next_id = id + 1]
        S2 == IF Truthy(embedding) THEN add_embedding(S1, id, embedding) ELSE S1
        S3 == log_event(S2, user_id, id, "rule_created")
    IN  invalidate_user_rules(S3, user_id)

\* services/rule_engine.py : get_rule
rule_exists(S, rule_id) == rule_id \in DOMAIN S.rules

\* what a method that ends in "return rule" gives back: the rule, or None
\* from "if not rule: return None"
returned_rule(S, rule_id) == IF rule_exists(S, rule_id) THEN "rule" ELSE "None"

\* what delete_rule gives back
returned_deleted(S, rule_id) == IF rule_exists(S, rule_id) THEN "True" ELSE "False"

RuleResult(op, S, rule_id) ==
    [op |-> op, rule_id |-> rule_id, returned |-> returned_rule(S, rule_id)]

\* models/interaction.py : extracted_rule_id is a foreign key with
\* ondelete="SET NULL"; deleting the rule empties the column
unlink_rule(interaction_rows, rule_id) ==
    [i \in DOMAIN interaction_rows |->
        IF interaction_rows[i].extracted_rule_id = rule_id
        THEN [interaction_rows[i] EXCEPT !.extracted_rule_id = None]
        ELSE interaction_rows[i]]

\* services/rule_engine.py : update_rule; content "" , status "" and
\* category "" stand for None (all three are falsy)
update_rule(S, rule_id, content, status, category, embedding_ok) ==
    IF ~rule_exists(S, rule_id) THEN S
    ELSE LET rule == S.rules[rule_id]
             embedding == generate_embedding(content, embedding_ok)
             embedded == content # "" /\ ~embedding.raised
             rule1 == [rule EXCEPT
                        !.content = IF content # "" THEN content ELSE @,
                        !.embedding_id = IF embedded THEN rule_id ELSE @,
                        !.status = IF status # "" THEN status ELSE @,
                        !.category = IF category # "" THEN category ELSE @]
             S1 == [S EXCEPT !.rules[rule_id] = rule1]
             S2 == IF embedded THEN add_embedding(S1, rule_id, embedding.value) ELSE S1
             S3 == log_event(S2, rule.user_id, rule_id, "rule_edited")
         IN  invalidate_user_rules(S3, rule.user_id)

\* services/rule_engine.py : delete_rule
delete_rule(S, rule_id) ==
    IF ~rule_exists(S, rule_id) THEN S
    ELSE LET user_id == S.rules[rule_id].user_id
             S1 == log_event(S, user_id, rule_id, "rule_deleted")
             S2 == [S1 EXCEPT !.rules = Drop(@, rule_id),
                              !.interactions = unlink_rule(@, rule_id)]
         IN  invalidate_user_rules(S2, user_id)

\* faulty variant: an active rule is archived instead of disabled
toggle_rule_archiving(S, rule_id) ==
    IF ~rule_exists(S, rule_id) THEN S
    ELSE LET new_status == IF S.rules[rule_id].status = "active"
                           THEN "archived" ELSE "active"
         IN  update_rule(S, rule_id, "", new_status, "", TRUE)

\* services/rule_engine.py : toggle_rule
toggle_rule(S, rule_id) ==
    IF ~rule_exists(S, rule_id) THEN S
    ELSE LET new_status == IF S.rules[rule_id].status = "active"
                           THEN "disabled" ELSE "active"
         IN  update_rule(S, rule_id, "", new_status, "", TRUE)

\* the confidence reinforce_rule stores; rule.times_reinforced is already
\* incremented
reinforced_confidence(rule, now) ==
    calculate_confidence(500, rule.times_reinforced, rule.last_applied_at, now)

\* services/rule_engine.py : reinforce_rule
reinforce_rule(S, rule_id, now) ==
    IF ~rule_exists(S, rule_id) THEN S
    ELSE LET rule == S.rules[rule_id]
             rule1 == [rule EXCEPT !.times_reinforced = @ + 1]
             rule2 == [rule1 EXCEPT !.confidence = reinforced_confidence(rule1, now)]
             S1 == [S EXCEPT !.rules[rule_id] = rule2]
             S2 == log_event(S1, rule.user_id, rule_id, "rule_reinforced")
         IN  invalidate_user_rules(S2, rule.user_id)

\* services/rule_engine.py : mark_rule_applied (the cache is not invalidated)
mark_rule_applied(S, rule_id, now) ==
    IF ~rule_exists(S, rule_id) THEN S
    ELSE LET rule == S.rules[rule_id]
             S1 == [S EXCEPT !.rules[rule_id] =
                        [rule EXCEPT !.times_applied = @ + 1, !.last_applied_at = now]]
         IN  log_event(S1, rule.user_id, rule_id, "rule_applied")

\* services/rule_engine.py : archive_rule
\* faulty variant: a missing rule is not noticed and the event is logged
archive_rule_logging_missing(S, rule_id) ==
    IF ~rule_exists(S, rule_id) THEN log_event(S, None, rule_id, "rule_archived")
    ELSE LET rule == S.rules[rule_id]
             S1 == [S EXCEPT !.rules[rule_id].status = "archived"]
             S2 == log_event(S1, rule.user_id, rule_id, "rule_archived")
         IN  invalidate_user_rules(S2, rule.user_id)

archive_rule(S, rule_id) ==
    IF ~rule_exists(S, rule_id) THEN S
    ELSE LET rule == S.rules[rule_id]
             S1 == [S EXCEPT !.rules[rule_id].status = "archived"]
             S2 == log_event(S1, rule.user_id, rule_id, "rule_archived")
         IN  invalidate_user_rules(S2, rule.user_id)

\* services/rule_engine.py : get_user_rules(user_id, status="active"), the
\* ids of the user's active rules.  ORDER BY confidence DESC leaves the order
\* of rules of equal confidence to the database: every order is possible.
\* faulty variant: only archived rules are left out
active_ids_not_archived(S, user_id) ==
    {id \in DOMAIN S.rules :
        S.rules[id].user_id = user_id /\ S.rules[id].status # "archived"}

active_ids(S, user_id) ==
    {id \in DOMAIN S.rules :
        S.rules[id].user_id = user_id /\ S.rules[id].status = "active"}

active_orders(S, user_id) ==
    LET ids == active_ids(S, user_id)
        n == Cardinality(ids)
    IN  {o \in [1..n -> ids] :
            /\ \A i, j \in 1..n : i # j => o[i] # o[j]
            /\ \A i \in 1..(n - 1) :
                  S.rules[o[i]].confidence >= S.rules[o[i + 1]].confidence}

\* [rule.to_dict() for rule in rules]
to_dicts(S, order) == [i \in 1..Len(order) |-> to_dict(S.rules[order[i]])]

\* services/memory.py : store_interaction (the fields the engine reads)
store_interaction(S, user_id) ==
    [S EXCEPT !.interactions = Append(@,
        [user_id |-> user_id, was_corrected |-> FALSE,
         correction_text |-> <<>>, extracted_rule_id |-> None])]

\* services/memory.py : mark_as_corrected
mark_as_corrected(S, interaction_id, correction_text, extracted_rule_id) ==
    IF interaction_id \notin DOMAIN S.interactions THEN S
    ELSE [S EXCEPT !.interactions[interaction_id] =
            [@ EXCEPT !.was_corrected = TRUE,
                      !.correction_text = correction_text,
                      !.extracted_rule_id =
                          IF extracted_rule_id # None THEN extracted_rule_id ELSE @]]

(***************************************************************************)
(* jobs/decay_processor.py : process_decay                                 *)
(***************************************************************************)
\* faulty variant: the sweep subtracts the penalty from the stored confidence
decay_new_confidence_subtracting(rule, now) ==
    rule.confidence
    - (IF rule.last_applied_at # None
       THEN Min((DaysSince(now, rule.last_applied_at) \div 7) * decay_rate, 400)
       ELSE 0)

\* the recomputed confidence of one rule
decay_new_confidence(rule, now) ==
    calculate_confidence(500, rule.times_reinforced, rule.last_applied_at, now)

\* faulty variant: no confidence is low enough to archive
should_archive_rule_never(confidence) == confidence < 0

\* faulty variant: a confidence equal to the threshold is archived too
should_archive_rule_inclusive(confidence) == confidence <= archive_threshold

\* core/algorithms.py : should_archive_rule
should_archive_rule(confidence) == confidence < archive_threshold

Abs(x) == IF x < 0 THEN 0 - x ELSE x

\* faulty variant: the comparison lets a zero difference through
changed_significantly_inclusive(rule, now) ==
    Abs(decay_new_confidence(rule, now) - rule.confidence) >= 0

\* abs(new_confidence - old_confidence) > 0.01
changed_significantly(rule, now) ==
    Abs(decay_new_confidence(rule, now) - rule.confidence) > 10

\* the body of the loop for one rule
decayed_rule(rule, now) ==
    LET new_confidence == decay_new_confidence(rule, now)
        rule1 == IF changed_significantly(rule, now)
                 THEN [rule EXCEPT !.confidence = new_confidence]
                 ELSE rule
    IN  IF should_archive_rule(new_confidence)
        THEN [rule1 EXCEPT !.status = "archived"]
        ELSE rule1

\* select(Rule).where(Rule.status == "active")
all_active_ids(S) == {id \in DOMAIN S.rules : S.rules[id].status = "active"}

\* the rules the loop counts as processed and as archived
decayed_ids(S, now) ==
    {id \in all_active_ids(S) : changed_significantly(S.rules[id], now)}

archived_ids(S, now) ==
    {id \in all_active_ids(S) :
        should_archive_rule(decay_new_confidence(S.rules[id], now))}

process_decay(S, now) ==
    LET active == all_active_ids(S)
        decayed == decayed_ids(S, now)
        archived == archived_ids(S, now)
        users_affected == {S.rules[id].user_id : id \in decayed}
        events == SetToBag({<<"rule_decayed", S.rules[id].user_id, id>> : id \in decayed})
                  (+) SetToBag({<<"rule_archived", S.rules[id].user_id, id>> : id \in archived})
    IN  [S EXCEPT
            !.rules = [id \in DOMAIN S.rules |->
                          IF id \in active THEN decayed_rule(S.rules[id], now)
                          ELSE S.rules[id]],
            !.audit_log = @ (+) events,
            !.rule_cache = [u \in DOMAIN S.rule_cache |->
                               IF u \in users_affected THEN CacheMiss
                               ELSE S.rule_cache[u]]]

\* what extract_json_response gives extract_rule: a failure, an invalid
\* verdict, an answer without rule text, or a rule with or without category
ExtractionResponses ==
    {Raised,
     Returned([is_valid |-> FALSE, rule |-> "Be concise", category |-> "style"]),
     Returned([is_valid |-> TRUE, rule |-> "", category |-> "style"]),
     Returned([rule |-> "Be concise"])}
    \cup {Returned([is_valid |-> TRUE, rule |-> c, category |-> "formatting"]) :
              c \in Contents}

Corrections == {<<"dont", "use", "bullet", "points">>, <<"thanks">>}

(***************************************************************************)
(* services/interaction.py : process_feedback                              *)
(***************************************************************************)
\* what extract_json_response gives detect_correction
DetectResponses ==
    {Raised,
     Returned([is_correction |-> TRUE, correction_type |-> "style", confidence |-> 900]),
     Returned([is_correction |-> TRUE, correction_type |-> "style", confidence |-> 400]),
     Returned([is_correction |-> FALSE, correction_type |-> "none", confidence |-> 900])}

\* the store after process_feedback and what it returns; op, extraction and
\* the like describe the run for the properties below
process_feedback(S, interaction_id, correction, detect_response, response, dup_ok, emb_ok, order, now) ==
    IF interaction_id \notin DOMAIN S.interactions
    THEN [db |-> S, status |-> "error", pipeline |-> "not_run", embedding_calls |-> 0]
    ELSE
    LET interaction == S.interactions[interaction_id]
        detected == detect_correction(correction, detect_response)
    IN  IF ~detected.is_correction \/ detected.confidence < 500
        THEN [db |-> S, status |-> "not_a_correction", pipeline |-> "not_run",
              embedding_calls |-> 0]
        ELSE
        LET existing_rules_data == to_dicts(S, order)
            result == process_correction(correction, existing_rules_data,
                                         response, dup_ok, emb_ok)
        IN  IF result.status = "rule_created"
            THEN LET rule_id == S.next_id
                     S1 == create_rule(S, interaction.user_id, result.rule.content,
                                       result.rule.category,
                                       result.rule.original_correction,
                                       Get(result.rule, "embedding", <<>>))
                     S2 == mark_as_corrected(S1, interaction_id, correction, rule_id)
                 IN  [db |-> S2, status |-> "rule_created",
                      pipeline |-> result.status,
                      embedding_calls |-> result.embedding_calls]
            ELSE IF result.status = "duplicate_found"
            THEN LET existing_rule == result.existing_rule
                     S1 == IF HasKey(existing_rule, "id")
                           THEN reinforce_rule(S, existing_rule.id, now) ELSE S
                     S2 == mark_as_corrected(S1, interaction_id, correction,
                                             IF HasKey(existing_rule, "id")
                                             THEN existing_rule.id ELSE None)
                 IN  [db |-> S2, status |-> "rule_reinforced",
                      pipeline |-> result.status,
                      embedding_calls |-> result.embedding_calls]
            ELSE [db |-> S,
                  status |-> "extraction_failed",
                  pipeline |-> result.status,
                  embedding_calls |-> result.embedding_calls]

(***************************************************************************)
(* jobs/rule_extractor.py : process_pending_extractions                    *)
(***************************************************************************)
\* the interactions the job selects (at most 50, more than any store here
\* holds)
pending_ids(S) ==
    {i \in DOMAIN S.interactions :
        /\ S.interactions[i].was_corrected
        /\ S.interactions[i].extracted_rule_id = None
        /\ S.interactions[i].correction_text # <<>>}

\* the loop over the selected interactions; outcomes[i] is what the
\* extraction service and the embedding service do for interaction i.  The
\* order of existing rules of equal confidence does not change the status
\* process_correction returns, which is all the job reads of a duplicate
RECURSIVE pending_loop(_, _, _)
pending_loop(S, todo, outcomes) ==
    IF todo = <<>> THEN S
    ELSE LET i == Head(todo)
             interaction == S.interactions[i]
             order == CHOOSE o \in active_orders(S, interaction.user_id) : TRUE
             result == process_correction(interaction.correction_text,
                                          to_dicts(S, order), outcomes[i].response,
                                          outcomes[i].dup_ok, outcomes[i].emb_ok)
             S1 == IF result.status = "rule_created"
                   THEN [create_rule(S, interaction.user_id, result.rule.content,
                                     result.rule.category,
                                     result.rule.original_correction,
                                     Get(result.rule, "embedding", <<>>))
                           EXCEPT !.interactions[i].extracted_rule_id = S.next_id]
                   ELSE S
         IN  pending_loop(S1, Tail(todo), outcomes)

process_pending_extractions(S, todo, outcomes) == pending_loop(S, todo, outcomes)

(***************************************************************************)
(* Spec : the handlers over the durable store.  A handler runs as one      *)
(* step, its commit included.                                              *)
(***************************************************************************)
RuleIds == 1..MaxRuleIds
TimePoints == {672 * k : k \in 0..MaxClockJumps}
AuditRoom == BagCardinality(audit_log) < audit_budget

Init ==
    /\ IdleConf /\ IdleSim /\ IdleMerge /\ IdleRank /\ IdlePipe
    /\ IdleSelect /\ IdleSection /\ IdleTruncate /\ IdleTxn /\ IdleStore

\* time passes; RuleCache entries live for TTL = 3600 seconds, less than any
\* advance of the clock taken here, so every cached snapshot expires
AdvanceClock ==
    /\ \E t \in TimePoints : t > utcnow /\ utcnow' = t
    /\ rule_cache' = [u \in Users |-> CacheMiss]
    /\ last_result' = NoResult
    /\ UNCHANGED <<rules, audit_log, interactions, vector_index, next_id, audit_budget, callVars>>

\* process_chat's store_interaction
StoreInteraction ==
    /\ Len(interactions) < MaxInteractions
    /\ \E u \in Users : Commit(store_interaction(DB, u))
    /\ last_result' = NoResult
    /\ UNCHANGED <<utcnow, audit_budget, callVars>>

\* the kind of answer the extraction service gave
ExtractionKind(response) ==
    IF response.raised THEN "failed"
    ELSE IF HasKey(response.value, "is_valid") /\ ~response.value.is_valid THEN "invalid"
    ELSE IF response.value.rule = "" THEN "no_rule_text"
    ELSE "rule"

\* what process_feedback returns, with the facts about the run that the
\* properties below speak of
FeedbackResult(r, interaction_id, response, dup_ok, order) ==
    [op |-> "process_feedback",
     status |-> r.status,
     pipeline |-> r.pipeline,
     embedding_calls |-> r.embedding_calls,
     interaction_id |-> interaction_id,
     extraction |-> IF r.pipeline = "not_run" THEN "not_called"
                    ELSE ExtractionKind(response),
     content |-> IF r.pipeline = "not_run" \/ response.raised THEN ""
                 ELSE response.value.rule,
     dup_ok |-> r.pipeline # "not_run" /\ dup_ok,
     existing |-> IF r.pipeline = "not_run" THEN <<>>
                  ELSE [i \in 1..Len(order) |-> to_dicts(DB, order)[i].id]]

\* does process_feedback get past its first two returns
ReachesPipeline(interaction_id, correction, detect_response) ==
    /\ interaction_id \in DOMAIN interactions
    /\ LET detected == detect_correction(correction, detect_response)
       IN  detected.is_correction /\ detected.confidence >= 500

\* the runs of process_feedback from the current state: the store each
\* leaves and what it returns, for every request and every outcome of the
\* external calls
FeedbackRunsOver(corrections) ==
    LET Run(r, q, response, dup_ok, emb_ok, order) ==
            [db |-> r.db,
             emb_ok |-> emb_ok,
             result |-> FeedbackResult(r, q[1], response, dup_ok, order),
             correction |-> q[2],
             detect_raised |-> q[3].raised,
             detected |-> detect_correction(q[2], q[3])]
        Requests == (1..(Len(interactions) + 1)) \X corrections \X DetectResponses
        early == {Run(process_feedback(DB, q[1], q[2], q[3], Raised, FALSE, FALSE,
                                       <<>>, utcnow), q, Raised, FALSE, FALSE, <<>>) :
                    q \in {q \in Requests : ~ReachesPipeline(q[1], q[2], q[3])}}
        late == UNION {
                    {Run(process_feedback(DB, q[1], q[2], q[3], response, dup_ok,
                                          emb_ok, order, utcnow), q, response, dup_ok,
                            emb_ok, order) :
                        response \in ExtractionResponses,
                        dup_ok \in BOOLEAN, emb_ok \in BOOLEAN,
                        order \in active_orders(DB, interactions[q[1]].user_id)} :
                    q \in {q \in Requests : ReachesPipeline(q[1], q[2], q[3])}}
    IN  early \cup late

FeedbackRuns == FeedbackRunsOver(Corrections)

ProcessFeedback ==
    /\ next_id <= MaxRuleIds
    /\ AuditRoom
    /\ \E run \in FeedbackRuns :
        /\ Commit(run.db)
        /\ last_result' = run.result
    /\ UNCHANGED <<utcnow, audit_budget, callVars>>

UpdateRule ==
    /\ AuditRoom
    /\ \E rule_id \in RuleIds, content \in {"", "Be concise"},
          status \in {""} \cup Statuses, embedding_ok \in BOOLEAN :
        /\ content = "" => embedding_ok
        /\ Commit(update_rule(DB, rule_id, content, status, "", embedding_ok))
        /\ last_result' = RuleResult("update_rule", DB, rule_id) @@ [status |-> status]
    /\ UNCHANGED <<utcnow, audit_budget, callVars>>

DeleteRule ==
    /\ AuditRoom
    /\ \E rule_id \in RuleIds :
        /\ Commit(delete_rule(DB, rule_id))
        /\ last_result' = [op |-> "delete_rule", rule_id |-> rule_id,
                            returned |-> returned_deleted(DB, rule_id)]
    /\ UNCHANGED <<utcnow, audit_budget, callVars>>

ToggleRule ==
    /\ AuditRoom
    /\ \E rule_id \in RuleIds :
        /\ Commit(toggle_rule(DB, rule_id))
        /\ last_result' = RuleResult("toggle_rule", DB, rule_id)
    /\ UNCHANGED <<utcnow, audit_budget, callVars>>

ReinforceRule ==
    /\ AuditRoom
    /\ \E rule_id \in RuleIds :
        /\ Commit(reinforce_rule(DB, rule_id, utcnow))
        /\ last_result' = RuleResult("reinforce_rule", DB, rule_id)
    /\ UNCHANGED <<utcnow, audit_budget, callVars>>

MarkRuleApplied ==
    /\ AuditRoom
    /\ \E rule_id \in RuleIds :
        /\ Commit(mark_rule_applied(DB, rule_id, utcnow))
        /\ last_result' = RuleResult("mark_rule_applied", DB, rule_id)
    /\ UNCHANGED <<utcnow, audit_budget, callVars>>

ArchiveRule ==
    /\ AuditRoom
    /\ \E rule_id \in RuleIds :
        /\ Commit(archive_rule(DB, rule_id))
        /\ last_result' = RuleResult("archive_rule", DB, rule_id)
    /\ UNCHANGED <<utcnow, audit_budget, callVars>>

ProcessDecay ==
    /\ Commit(process_decay(DB, utcnow))
    /\ last_result' = [op |-> "process_decay",
                        processed |-> Cardinality(decayed_ids(DB, utcnow)),
                        archived |-> Cardinality(archived_ids(DB, utcnow)),
                        after_sweep |-> /\ last_result.op = "process_decay"
                                        /\ last_result.processed + last_result.archived > 0]
    /\ UNCHANGED <<utcnow, audit_budget, callVars>>

\* services/rule_engine.py : get_rules_for_prompt
GetRulesForPrompt ==
    /\ \E user_id \in Users, context \in {"", "Be concise"}, embedding_ok \in BOOLEAN :
        \E order \in active_orders(DB, user_id) :
            LET cached == rule_cache[user_id]
                hit == cached.present /\ Truthy(cached.data)
                rules_data == IF hit THEN cached.data ELSE to_dicts(DB, order)
                embedding == generate_embedding(context, embedding_ok)
                context_embedding ==
                    IF context # "" /\ ~embedding.raised THEN embedding.value ELSE <<>>
                selected == select_rules_for_prompt(rules_data, context_embedding,
                                                    500, utcnow)
            IN  /\ rule_cache' =
                      IF hit THEN rule_cache
                      ELSE [rule_cache EXCEPT ![user_id] =
                               [present |-> TRUE, data |-> rules_data]]
                /\ last_result' =
                      [op |-> "get_rules_for_prompt", user_id |-> user_id,
                       returned |-> [i \in 1..Len(Take(selected, 10)) |->
                                        Take(selected, 10)[i].id]]
    /\ UNCHANGED <<utcnow, rules, audit_log, interactions, vector_index, next_id,
                   audit_budget, callVars>>

Next ==
    \/ AdvanceClock
    \/ StoreInteraction
    \/ ProcessFeedback
    \/ UpdateRule
    \/ DeleteRule
    \/ ToggleRule
    \/ ReinforceRule
    \/ MarkRuleApplied
    \/ ArchiveRule
    \/ ProcessDecay
    \/ GetRulesForPrompt

Spec == Init /\ [][Next]_vars

(***************************************************************************)
(* SpecLife : the life of one learned rule.  The run starts from the store *)
(* that process_chat and one successful process_feedback leave behind and  *)
(* follows the rule through use, reinforcement, edits, decay sweeps and    *)
(* reads.                                                                  *)
(***************************************************************************)
MaxLifeAudit == 5

EmptyStore ==
    [rules |-> <<>>, audit_log |-> EmptyBag, interactions |-> <<>>,
     vector_index |-> <<>>, rule_cache |-> [u \in Users |-> CacheMiss], next_id |-> 1]

\* store_interaction for user 1, then process_feedback learning a rule from it
LearnedStore ==
    process_feedback(store_interaction(EmptyStore, 1), 1,
                     <<"dont", "use", "bullet", "points">>,
                     Returned([is_correction |-> TRUE, correction_type |-> "style",
                               confidence |-> 900]),
                     Returned([is_valid |-> TRUE, rule |-> "Avoid bullet points",
                               category |-> "formatting"]),
                     TRUE, TRUE, <<>>, 0).db

InitLife ==
    /\ IdleConf /\ IdleSim /\ IdleMerge /\ IdleRank /\ IdlePipe
    /\ IdleSelect /\ IdleSection /\ IdleTruncate /\ IdleTxn
    /\ utcnow = 0
    /\ rules = LearnedStore.rules
    /\ audit_log = LearnedStore.audit_log
    /\ interactions = LearnedStore.interactions
    /\ vector_index = LearnedStore.vector_index
    /\ rule_cache = LearnedStore.rule_cache
    /\ next_id = LearnedStore.next_id
    /\ last_result = NoResult
    /\ audit_budget = MaxLifeAudit

NextLife ==
    \/ AdvanceClock
    \/ UpdateRule
    \/ DeleteRule
    \/ ToggleRule
    \/ ReinforceRule
    \/ MarkRuleApplied
    \/ ArchiveRule
    \/ ProcessDecay
    \/ GetRulesForPrompt

SpecLife == InitLife /\ [][NextLife]_vars

(***************************************************************************)
(* Sessions.  A handler run statement by statement works on its own        *)
(* session: snapshot is the store as the session read it, work is the      *)
(* store with the session's pending changes.  Rows, audit events and       *)
(* interactions reach the durable store at commit; the vector index and    *)
(* the rule cache are outside the transaction and change at once.          *)
(***************************************************************************)
\* the UPDATE a flush emits for one row: the columns the session changed
merged_row(durable_row, snapshot_row, work_row) ==
    [f \in DOMAIN durable_row |->
        IF work_row[f] # snapshot_row[f] THEN work_row[f] ELSE durable_row[f]]

\* await db.commit(): the session's inserts and updates applied to the
\* durable store
session_commit(D, snapshot, work) ==
    LET inserted == DOMAIN work.rules \ DOMAIN snapshot.rules
        appended == (Len(snapshot.interactions) + 1)..Len(work.interactions)
    IN  [D EXCEPT
            !.rules = [id \in DOMAIN D.rules \cup inserted |->
                          IF id \in inserted THEN work.rules[id]
                          ELSE IF id \in DOMAIN work.rules /\ id \in DOMAIN snapshot.rules
                          THEN merged_row(D.rules[id], snapshot.rules[id], work.rules[id])
                          ELSE D.rules[id]],
            !.audit_log = @ (+) (work.audit_log (-) snapshot.audit_log),
            !.interactions =
                [i \in 1..Len(D.interactions) |->
                    IF i <= Len(snapshot.interactions)
                    THEN merged_row(D.interactions[i], snapshot.interactions[i],
                                    work.interactions[i])
                    ELSE D.interactions[i]]
                \o [k \in 1..Cardinality(appended) |->
                        work.interactions[Len(snapshot.interactions) + k]],
            !.next_id = Max(@, work.next_id)]

\* faulty variant: the handler commits what is pending instead of rolling back
session_rollback_committing(D, snapshot, work) == session_commit(D, snapshot, work)

\* await db.rollback(), or the session closed without a commit
session_rollback(D, snapshot, work) == D

\* the rows and events of a store value become the durable store
Persist(S) ==
    /\ rules' = S.rules
    /\ audit_log' = S.audit_log
    /\ interactions' = S.interactions
    /\ next_id' = S.next_id

\* every order in which a query without ORDER BY may return the rows
RECURSIVE row_orders(_)
row_orders(ids) ==
    IF ids = {} THEN {<<>>}
    ELSE UNION {{<<id>> \o o : o \in row_orders(ids \ {id})} : id \in ids}

(***************************************************************************)
(* jobs/decay_processor.py : process_decay statement by statement.         *)
(***************************************************************************)
\* lines 32-39: the session opens and loads the active rules
SweepBegin ==
    /\ txn.sweep.pc = "idle"
    /\ \E todo \in row_orders(all_active_ids(DB)) :
        txn' = [txn EXCEPT !.sweep =
                   [pc |-> "loop", snapshot |-> DB, work |-> DB, todo |-> todo,
                    users_affected |-> {}, failed_at |-> ""]]
    /\ UNCHANGED <<conf_call, sim_call, merge_call, rank_call, pipe, select_call,
                   section_call, truncate_call, storeVars>>

\* lines 41-70: the body of the loop for the next rule
SweepRule ==
    /\ txn.sweep.pc = "loop"
    /\ txn.sweep.todo # <<>>
    /\ LET id == Head(txn.sweep.todo)
           work == txn.sweep.work
           rule == work.rules[id]
           changed == changed_significantly(rule, utcnow)
           archive == should_archive_rule(decay_new_confidence(rule, utcnow))
           events == (IF changed THEN SetToBag({<<"rule_decayed", rule.user_id, id>>})
                      ELSE EmptyBag)
                     (+) (IF archive THEN SetToBag({<<"rule_archived", rule.user_id, id>>})
                          ELSE EmptyBag)
       IN  txn' = [txn EXCEPT
                     !.sweep.todo = Tail(@),
                     !.sweep.work = [work EXCEPT
                                        !.rules[id] = decayed_rule(rule, utcnow),
                                        !.audit_log = @ (+) events],
                     !.sweep.users_affected =
                         IF changed THEN @ \cup {rule.user_id} ELSE @]
    /\ UNCHANGED <<conf_call, sim_call, merge_call, rank_call, pipe, select_call,
                   section_call, truncate_call, storeVars>>

\* a row the sweep is about to update is locked by the request's flush
SweepBlocked ==
    /\ txn.request.pc = "flushed"
    /\ txn.request.rule_id \in DOMAIN txn.sweep.work.rules
    /\ txn.sweep.work.rules[txn.request.rule_id]
           # txn.sweep.snapshot.rules[txn.request.rule_id]

\* line 72: await db.commit()
SweepCommit ==
    /\ txn.sweep.pc = "loop"
    /\ txn.sweep.todo = <<>>
    /\ ~SweepBlocked
    /\ Persist(session_commit(DB, txn.sweep.snapshot, txn.sweep.work))
    /\ txn' = [txn EXCEPT !.sweep.pc = "invalidate"]
    /\ UNCHANGED <<conf_call, sim_call, merge_call, rank_call, pipe, select_call,
                   section_call, truncate_call, utcnow, vector_index, rule_cache, last_result,
                   audit_budget>>

\* lines 75-76: the caches of the affected users are invalidated
SweepInvalidate ==
    /\ txn.sweep.pc = "invalidate"
    /\ rule_cache' = [u \in DOMAIN rule_cache |->
                         IF u \in txn.sweep.users_affected THEN CacheMiss
                         ELSE rule_cache[u]]
    /\ txn' = [txn EXCEPT !.sweep.pc = "done"]
    /\ UNCHANGED <<conf_call, sim_call, merge_call, rank_call, pipe, select_call,
                   section_call, truncate_call, utcnow, rules, audit_log, interactions, vector_index,
                   next_id, last_result, audit_budget>>

\* lines 80-83: a statement raised (the query, an audit insert, the commit
\* or a cache call); the handler rolls back and re-raises
SweepFail ==
    /\ txn.sweep.pc \in {"loop", "invalidate"}
    /\ Persist(session_rollback(DB, txn.sweep.snapshot, txn.sweep.work))
    /\ txn' = [txn EXCEPT !.sweep.pc = "failed", !.sweep.failed_at = txn.sweep.pc]
    /\ UNCHANGED <<conf_call, sim_call, merge_call, rank_call, pipe, select_call,
                   section_call, truncate_call, utcnow, vector_index, rule_cache, last_result,
                   audit_budget>>

(***************************************************************************)
(* SpecSweep : one decay sweep, statement by statement, with a failure     *)
(* possible at every statement, over stores with two learned rules.        *)
(***************************************************************************)
\* the store after a second correction taught a second rule
TwoLearnedStore ==
    process_feedback(LearnedStore, 1, <<"dont", "use", "bullet", "points">>,
                     Returned([is_correction |-> TRUE, correction_type |-> "style",
                               confidence |-> 900]),
                     Returned([is_valid |-> TRUE, rule |-> "Be concise",
                               category |-> "style"]),
                     TRUE, TRUE, <<1>>, 0).db

\* the two rules used and reinforced at time 0 in every combination
SweepStores ==
    {LET S1 == IF a1 THEN mark_rule_applied(TwoLearnedStore, 1, 0) ELSE TwoLearnedStore
         S2 == IF a2 THEN mark_rule_applied(S1, 2, 0) ELSE S1
     IN  IF r2 THEN reinforce_rule(S2, 2, 0) ELSE S2 :
        a1 \in BOOLEAN, a2 \in BOOLEAN, r2 \in BOOLEAN}

InitSweep ==
    /\ IdleConf /\ IdleSim /\ IdleMerge /\ IdleRank /\ IdlePipe
    /\ IdleSelect /\ IdleSection /\ IdleTruncate /\ IdleTxn
    /\ utcnow \in TimePoints
    /\ \E S \in SweepStores :
        /\ rules = S.rules
        /\ audit_log = S.audit_log
        /\ interactions = S.interactions
        /\ vector_index = S.vector_index
        /\ rule_cache = S.rule_cache
        /\ next_id = S.next_id
    /\ last_result = NoResult
    /\ audit_budget = MaxAudit

NextSweep ==
    \/ SweepBegin
    \/ SweepRule
    \/ SweepCommit
    \/ SweepInvalidate
    \/ SweepFail

SpecSweep == InitSweep /\ [][NextSweep]_vars

(***************************************************************************)
(* services/interaction.py : the duplicate branch of process_feedback,     *)
(* statement by statement on the request's session.  reinforce_rule        *)
(* changes the loaded row in memory; the UPDATE reaches the database at    *)
(* the autoflush of mark_as_corrected's SELECT or at the commit.  Neither  *)
(* get_rule nor the sweep's SELECT locks the rows it reads.                *)
(***************************************************************************)
\* rule_engine.py lines 297-319: reinforce_rule on the request's session;
\* the cache call takes effect at once
RequestReinforce ==
    /\ txn.request.pc = "idle"
    /\ \E rule_id \in DOMAIN rules :
        LET work == reinforce_rule(DB, rule_id, utcnow)
        IN  /\ txn' = [txn EXCEPT !.request =
                          [pc |-> "modified", rule_id |-> rule_id, snapshot |-> DB,
                           work |-> [work EXCEPT !.rule_cache = rule_cache]]]
            /\ rule_cache' = work.rule_cache
    /\ UNCHANGED <<conf_call, sim_call, merge_call, rank_call, pipe, select_call,
                   section_call, truncate_call, utcnow, rules, audit_log, interactions, vector_index,
                   next_id, last_result, audit_budget>>

\* memory.py line 85: the SELECT of mark_as_corrected flushes the pending
\* UPDATE, which takes the row's lock until the commit
RequestFlush ==
    /\ txn.request.pc = "modified"
    /\ txn' = [txn EXCEPT !.request.pc = "flushed"]
    /\ UNCHANGED <<conf_call, sim_call, merge_call, rank_call, pipe, select_call,
                   section_call, truncate_call, storeVars>>

\* interaction.py lines 164 and 184, routes/rules.py line 130:
\* await db.commit()
RequestCommit ==
    /\ txn.request.pc \in {"modified", "flushed", "marked"}
    /\ Persist(session_commit(DB, txn.request.snapshot, txn.request.work))
    /\ txn' = [txn EXCEPT !.request.pc = "done"]
    /\ UNCHANGED <<conf_call, sim_call, merge_call, rank_call, pipe, select_call,
                   section_call, truncate_call, utcnow, vector_index, rule_cache, last_result,
                   audit_budget>>

\* dependencies.py lines 14-18: a statement raised or the caller went away;
\* the session is closed without a commit
RequestFail ==
    /\ txn.request.pc \in {"modified", "flushed", "extracted", "created", "marked"}
    /\ Persist(session_rollback(DB, txn.request.snapshot, txn.request.work))
    /\ txn' = [txn EXCEPT !.request.pc = "failed"]
    /\ UNCHANGED <<conf_call, sim_call, merge_call, rank_call, pipe, select_call,
                   section_call, truncate_call, utcnow, vector_index, rule_cache, last_result,
                   audit_budget>>

(***************************************************************************)
(* services/interaction.py : the rule_created branch of process_feedback,  *)
(* statement by statement on the request's session.                        *)
(***************************************************************************)
\* interaction.py lines 116-143: the interaction and the active rules are
\* read and the pipeline runs; nothing is written.  A request that ends in
\* one of the early returns is done; the duplicate branch is
\* RequestReinforce
RequestExtract ==
    /\ txn.request.pc = "idle"
    /\ \E interaction_id \in 1..(Len(interactions) + 1), correction \in Corrections,
          detect_response \in DetectResponses :
        IF ~ReachesPipeline(interaction_id, correction, detect_response)
        THEN txn' = [txn EXCEPT !.request =
                        [pc |-> "done", interaction_id |-> interaction_id,
                         correction |-> correction, rule |-> <<>>,
                         snapshot |-> DB, work |-> DB]]
        ELSE \E response \in ExtractionResponses, dup_ok \in BOOLEAN, emb_ok \in BOOLEAN,
                order \in active_orders(DB, interactions[interaction_id].user_id) :
                LET result == process_correction(correction, to_dicts(DB, order),
                                                 response, dup_ok, emb_ok)
                IN  /\ result.status # "duplicate_found"
                    /\ txn' = [txn EXCEPT !.request =
                                  [pc |-> IF result.status = "rule_created"
                                          THEN "extracted" ELSE "done",
                                   interaction_id |-> interaction_id,
                                   correction |-> correction,
                                   rule |-> IF result.status = "rule_created"
                                            THEN result.rule ELSE <<>>,
                                   snapshot |-> DB, work |-> DB]]
    /\ UNCHANGED <<conf_call, sim_call, merge_call, rank_call, pipe, select_call,
                   section_call, truncate_call, storeVars>>

\* interaction.py lines 148-154, rule_engine.py lines 66-99: create_rule on
\* the request's session; the row and the audit event are pending, the
\* vector index entry and the cache call take effect at once
RequestCreateRule ==
    /\ txn.request.pc = "extracted"
    /\ LET req == txn.request
           S == [req.work EXCEPT !.vector_index = vector_index,
                                 !.rule_cache = rule_cache]
           S1 == create_rule(S, interactions[req.interaction_id].user_id,
                             req.rule.content, req.rule.category,
                             req.rule.original_correction,
                             Get(req.rule, "embedding", <<>>))
       IN  /\ txn' = [txn EXCEPT !.request.pc = "created",
                                 !.request.work = [S1 EXCEPT
                                     !.vector_index = req.work.vector_index,
                                     !.rule_cache = req.work.rule_cache]]
           /\ vector_index' = S1.vector_index
           /\ rule_cache' = S1.rule_cache
    /\ UNCHANGED <<conf_call, sim_call, merge_call, rank_call, pipe, select_call,
                   section_call, truncate_call, utcnow, rules, audit_log, interactions, next_id,
                   last_result, audit_budget>>

\* interaction.py lines 157-161: mark_as_corrected on the request's session
RequestMarkCorrected ==
    /\ txn.request.pc = "created"
    /\ LET req == txn.request
       IN  txn' = [txn EXCEPT
                     !.request.pc = "marked",
                     !.request.work = mark_as_corrected(req.work, req.interaction_id,
                                                        req.correction,
                                                        req.snapshot.next_id)]
    /\ UNCHANGED <<conf_call, sim_call, merge_call, rank_call, pipe, select_call,
                   section_call, truncate_call, storeVars>>

(***************************************************************************)
(* SpecCancel : one feedback request, statement by statement, which the    *)
(* caller may abandon, or a statement of which may raise, at every point   *)
(* before the commit.                                                      *)
(***************************************************************************)
\* the stores a feedback request may find: a first interaction of a user
\* without rules, and the stores with one and two learned rules
CancelStores ==
    {store_interaction(EmptyStore, u) : u \in Users} \cup {LearnedStore, TwoLearnedStore}

InitCancel ==
    /\ IdleConf /\ IdleSim /\ IdleMerge /\ IdleRank /\ IdlePipe
    /\ IdleSelect /\ IdleSection /\ IdleTruncate /\ IdleTxn
    /\ utcnow \in TimePoints
    /\ \E S \in CancelStores :
        /\ rules = S.rules
        /\ audit_log = S.audit_log
        /\ interactions = S.interactions
        /\ vector_index = S.vector_index
        /\ rule_cache = S.rule_cache
        /\ next_id = S.next_id
    /\ last_result = NoResult
    /\ audit_budget = MaxAudit

NextCancel ==
    \/ RequestExtract
    \/ RequestCreateRule
    \/ RequestMarkCorrected
    \/ RequestCommit
    \/ RequestFail

SpecCancel == InitCancel /\ [][NextCancel]_vars

(***************************************************************************)
(* SpecFeedback : process_feedback as one step, for messages in which a    *)
(* keyword is a word, is part of a word, is written in capitals or spans   *)
(* two words, and for every outcome of the detection call.                 *)
(***************************************************************************)
Messages ==
    Corrections \cup
    {<<"STOP", "that">>, <<"Please", "use", "tabs">>, <<"add", "a", "prefix">>,
     <<"please", "tabs">>}

\* process_feedback; the record of the run also holds the message and what
\* detect_correction returned
ProcessFeedbackMessage ==
    /\ AuditRoom
    /\ \E run \in FeedbackRunsOver(Messages) :
        /\ Commit(run.db)
        /\ last_result' = run.result @@ [correction |-> run.correction,
                                         detect_raised |-> run.detect_raised,
                                         emb_ok |-> run.emb_ok,
                                         detected |-> run.detected]
    /\ UNCHANGED <<utcnow, audit_budget, callVars>>

MaxFeedbackEvents == 1

InitFeedback ==
    /\ IdleConf /\ IdleSim /\ IdleMerge /\ IdleRank /\ IdlePipe
    /\ IdleSelect /\ IdleSection /\ IdleTruncate /\ IdleTxn
    /\ utcnow = 0
    /\ \E S \in CancelStores :
        /\ rules = S.rules
        /\ audit_log = S.audit_log
        /\ interactions = S.interactions
        /\ vector_index = S.vector_index
        /\ rule_cache = S.rule_cache
        /\ next_id = S.next_id
        /\ audit_budget = BagCardinality(S.audit_log) + MaxFeedbackEvents
    /\ last_result = NoResult

NextFeedback == ProcessFeedbackMessage

SpecFeedback == InitFeedback /\ [][NextFeedback]_vars

(***************************************************************************)
(* SpecExtractor : feedback requests, rule deletions and runs of the       *)
(* pending-extraction job.                                                 *)
(***************************************************************************)
JobOutcomes ==
    {[response |-> r, dup_ok |-> d, emb_ok |-> e] :
        r \in {Raised,
               Returned([is_valid |-> TRUE, rule |-> "Be concise", category |-> "style"])},
        d \in BOOLEAN, e \in BOOLEAN}

ProcessPendingExtractions ==
    /\ next_id <= MaxRuleIds
    /\ AuditRoom
    /\ \E todo \in row_orders(pending_ids(DB)) :
        \E outcomes \in [pending_ids(DB) -> JobOutcomes] :
            /\ Commit(process_pending_extractions(DB, todo, outcomes))
            /\ last_result' = [op |-> "process_pending_extractions",
                                pending |-> pending_ids(DB)]
    /\ UNCHANGED <<utcnow, audit_budget, callVars>>

MaxExtractorEvents == 3

InitExtractor ==
    /\ IdleConf /\ IdleSim /\ IdleMerge /\ IdleRank /\ IdlePipe
    /\ IdleSelect /\ IdleSection /\ IdleTruncate /\ IdleTxn
    /\ utcnow = 0
    /\ \E S \in CancelStores :
        /\ rules = S.rules
        /\ audit_log = S.audit_log
        /\ interactions = S.interactions
        /\ vector_index = S.vector_index
        /\ rule_cache = S.rule_cache
        /\ next_id = S.next_id
        /\ audit_budget = BagCardinality(S.audit_log) + MaxExtractorEvents
    /\ last_result = NoResult

NextExtractor ==
    \/ ProcessFeedback
    \/ DeleteRule
    \/ ProcessPendingExtractions

SpecExtractor == InitExtractor /\ [][NextExtractor]_vars

(***************************************************************************)
(* api/routes/rules.py : PATCH /rules/{rule_id} on the request's session.  *)
(***************************************************************************)
\* routes/rules.py lines 120-125, rule_engine.py lines 179-240: update_rule
\* changes the loaded row in the session and invalidates the cache at once;
\* the commit follows in RequestCommit
RequestUpdateRule ==
    /\ txn.request.pc = "idle"
    /\ \E rule_id \in DOMAIN rules, status \in Statuses :
        LET work == update_rule(DB, rule_id, "", status, "", TRUE)
        IN  /\ txn' = [txn EXCEPT !.request =
                          [pc |-> "modified", rule_id |-> rule_id, snapshot |-> DB,
                           work |-> [work EXCEPT !.rule_cache = rule_cache]]]
            /\ rule_cache' = work.rule_cache
    /\ UNCHANGED <<conf_call, sim_call, merge_call, rank_call, pipe, select_call,
                   section_call, truncate_call, utcnow, rules, audit_log, interactions, vector_index,
                   next_id, last_result, audit_budget>>

(***************************************************************************)
(* SpecStale : one request that updates a rule, its service call and its   *)
(* commit being two steps, with get_rules_for_prompt calls of other        *)
(* requests in between and after.                                          *)
(***************************************************************************)
NextStale ==
    \/ RequestUpdateRule
    \/ RequestCommit
    \/ RequestFail
    \/ GetRulesForPrompt

SpecStale == InitSweep /\ [][NextStale]_vars

(***************************************************************************)
(* SpecDecayJob : jobs/scheduler.py runs process_decay every day while     *)
(* time passes and no rule is applied or reinforced.  The scheduler        *)
(* triggers the job again and again, so a sweep that has something to do   *)
(* is eventually run, and the clock goes on.                               *)
(***************************************************************************)
\* the stores of two learned rules, each used or not and reinforced or not
DecayJobStores ==
    SweepStores \cup {reinforce_rule(S, 1, 0) : S \in SweepStores}

InitDecayJob ==
    /\ IdleConf /\ IdleSim /\ IdleMerge /\ IdleRank /\ IdlePipe
    /\ IdleSelect /\ IdleSection /\ IdleTruncate /\ IdleTxn
    /\ utcnow \in TimePoints
    /\ \E S \in DecayJobStores :
        /\ rules = S.rules
        /\ audit_log = S.audit_log
        /\ interactions = S.interactions
        /\ vector_index = S.vector_index
        /\ rule_cache = S.rule_cache
        /\ next_id = S.next_id
    /\ last_result = NoResult
    /\ audit_budget = MaxAudit

NextDecayJob ==
    \/ AdvanceClock
    \/ ProcessDecay

SpecDecayJob ==
    /\ InitDecayJob
    /\ [][NextDecayJob]_vars
    /\ WF_vars(AdvanceClock)
    /\ WF_vars(ProcessDecay)

(***************************************************************************)
(* SpecCounter : two requests, each on its own session, that call          *)
(* reinforce_rule or mark_rule_applied and commit, in every interleaving.  *)
(***************************************************************************)
Sessions == {"request", "second"}

\* rule_engine.py lines 296-319: get_rule reads the row without a lock and
\* the new counter and confidence are computed in memory from what was read;
\* the cache call takes effect at once
SessionReinforce(s) ==
    /\ txn[s].pc = "idle"
    /\ \E rule_id \in DOMAIN rules :
        LET work == reinforce_rule(DB, rule_id, utcnow)
        IN  /\ txn' = [txn EXCEPT ![s] =
                          [pc |-> "modified", rule_id |-> rule_id, snapshot |-> DB,
                           work |-> [work EXCEPT !.rule_cache = rule_cache]]]
            /\ rule_cache' = work.rule_cache
    /\ UNCHANGED <<conf_call, sim_call, merge_call, rank_call, pipe, select_call,
                   section_call, truncate_call, utcnow, rules, audit_log, interactions,
                   vector_index, next_id, last_result, audit_budget>>

\* rule_engine.py lines 331-345: mark_rule_applied, the same way
SessionMarkApplied(s) ==
    /\ txn[s].pc = "idle"
    /\ \E rule_id \in DOMAIN rules :
        /\ txn' = [txn EXCEPT ![s] =
                      [pc |-> "modified", rule_id |-> rule_id, snapshot |-> DB,
                       work |-> mark_rule_applied(DB, rule_id, utcnow)]]
    /\ UNCHANGED <<conf_call, sim_call, merge_call, rank_call, pipe, select_call,
                   section_call, truncate_call, storeVars>>

\* await db.commit(): the UPDATE carries the values computed in memory
SessionCommit(s) ==
    /\ txn[s].pc = "modified"
    /\ Persist(session_commit(DB, txn[s].snapshot, txn[s].work))
    /\ txn' = [txn EXCEPT ![s].pc = "done"]
    /\ UNCHANGED <<conf_call, sim_call, merge_call, rank_call, pipe, select_call,
                   section_call, truncate_call, utcnow, vector_index, rule_cache, last_result,
                   audit_budget>>

\* the request fails before its commit and its session is rolled back
SessionFail(s) ==
    /\ txn[s].pc = "modified"
    /\ Persist(session_rollback(DB, txn[s].snapshot, txn[s].work))
    /\ txn' = [txn EXCEPT ![s].pc = "failed"]
    /\ UNCHANGED <<conf_call, sim_call, merge_call, rank_call, pipe, select_call,
                   section_call, truncate_call, utcnow, vector_index, rule_cache, last_result,
                   audit_budget>>

NextCounter ==
    \/ \E s \in Sessions : SessionReinforce(s)
    \/ \E s \in Sessions : SessionMarkApplied(s)
    \/ \E s \in Sessions : SessionCommit(s)
    \/ \E s \in Sessions : SessionFail(s)

SpecCounter == InitSweep /\ [][NextCounter]_vars

(***************************************************************************)
(* SpecRace : one decay sweep and one reinforcing request, each on its own *)
(* session, in every interleaving of their statements.                     *)
(***************************************************************************)
NextRace ==
    \/ SweepBegin
    \/ SweepRule
    \/ SweepCommit
    \/ SweepInvalidate
    \/ SweepFail
    \/ RequestReinforce
    \/ RequestFlush
    \/ RequestCommit
    \/ RequestFail

SpecRace == InitSweep /\ [][NextRace]_vars

(***************************************************************************)
(* SpecPipe : one run of process_correction, one stage per step, for every *)
(* outcome of the extraction-service call and of the two embedding calls.  *)
(***************************************************************************)
MaxPipeExisting == 2

InitPipe ==
    /\ pipe \in [pc : {"extract"},
                 user_correction : {<<"dont", "use", "bullet", "points">>},
                 existing_rules : RuleLists(MaxPipeExisting),
                 response : ExtractionResponses,
                 dup_ok : BOOLEAN,
                 emb_ok : BOOLEAN,
                 rule_data : {<<>>},
                 embedding_calls : {0},
                 result : {[status |-> "none"]}]
    /\ IdleConf /\ IdleSim /\ IdleMerge /\ IdleRank /\ IdleSelect /\ IdleSection /\ IdleTruncate /\ IdleTxn /\ IdleStore

\* Step 1: extract rule
PipeExtract ==
    /\ pipe.pc = "extract"
    /\ LET rule_data == extract_rule(pipe.user_correction, pipe.response)
       IN  IF rule_data = <<>>
           THEN pipe' = [pipe EXCEPT !.pc = "returned",
                                     !.result = [status |-> "extraction_failed"]]
           ELSE pipe' = [pipe EXCEPT !.pc = "duplicate_check",
                                     !.rule_data = rule_data]
    /\ UNCHANGED <<conf_call, sim_call, merge_call, rank_call, select_call, section_call, truncate_call, txn, storeVars>>

\* Step 2: check for duplicates
PipeDuplicateCheck ==
    /\ pipe.pc = "duplicate_check"
    /\ LET duplicate == check_duplicate_rule(pipe.rule_data[1].content,
                                             pipe.existing_rules, pipe.dup_ok)
       IN  IF duplicate # <<>>
           THEN pipe' = [pipe EXCEPT !.pc = "returned",
                                     !.embedding_calls = @ + 1,
                                     !.result = [status |-> "duplicate_found",
                                                 existing_rule |-> duplicate[1]]]
           ELSE pipe' = [pipe EXCEPT !.pc = "embed", !.embedding_calls = @ + 1]
    /\ UNCHANGED <<conf_call, sim_call, merge_call, rank_call, select_call, section_call, truncate_call, txn, storeVars>>

\* Steps 3 and 4: embed the new rule and return it
PipeEmbed ==
    /\ pipe.pc = "embed"
    /\ LET attached == attach_embedding(pipe.rule_data[1], pipe.emb_ok)
       IN  IF attached.raised
           THEN pipe' = [pipe EXCEPT !.pc = "raised", !.embedding_calls = @ + 1]
           ELSE pipe' = [pipe EXCEPT !.pc = "returned",
                                     !.embedding_calls = @ + 1,
                                     !.result = [status |-> "rule_created",
                                                 rule |-> attached.rule]]
    /\ UNCHANGED <<conf_call, sim_call, merge_call, rank_call, select_call, section_call, truncate_call, txn, storeVars>>

NextPipe == PipeExtract \/ PipeDuplicateCheck \/ PipeEmbed

SpecPipe == InitPipe /\ [][NextPipe]_vars

\* the event loop runs a coroutine whose awaited call has completed
SpecPipeFair == SpecPipe /\ WF_vars(NextPipe)

(***************************************************************************)
(* Claims about calculate_confidence (checked under SpecConf).             *)
(***************************************************************************)
Computed == conf_call.result # None

\* C2: for every base confidence, every times_reinforced >= 0 and every
\* last_applied_at (absent, past or future), the value returned by
\* calculate_confidence lies in [0.1, 0.95].
C2_ConfidenceInRange ==
    Computed => (conf_call.result >= 100 /\ conf_call.result <= 950)

\* both clamps have acted: an unclamped sum below the floor and one above the cap
C2_Witness ==
    /\ Computed
    /\ conf_call.base_confidence < 0
    /\ conf_call.last_applied_at # None
    /\ conf_call.now - conf_call.last_applied_at >= 168 * 8
    /\ conf_call.result = 100

\* floor of a quotient, stated by its defining inequalities
FloorDiv(a, b) == CHOOSE q \in -400..400 : q * b <= a /\ a < (q + 1) * b

ClaimedPenalty ==
    IF conf_call.last_applied_at = None
    THEN 0
    ELSE Min(FloorDiv(FloorDiv(conf_call.now - conf_call.last_applied_at, 24), 7) * 50, 400)

ClaimedConfidence ==
    LET raw == conf_call.base_confidence
               + Min(conf_call.times_reinforced * 100, 450) - ClaimedPenalty
    IN  IF raw < 100 THEN 100 ELSE IF raw > 950 THEN 950 ELSE raw

\* C3: calculate_confidence equals
\* clamp(base + min(times_reinforced*0.1, 0.45) - penalty, 0.1, 0.95) with
\* penalty = min(floor(days_since_last_applied/7) * decay_rate, 0.4), 0 when
\* last_applied_at is absent; base 0.5, no reinforcement and last applied
\* 21 days ago give 0.35.
C3_ConfidenceFormula ==
    Computed =>
        /\ conf_call.result = ClaimedConfidence
        /\ (/\ conf_call.base_confidence = 500
            /\ conf_call.times_reinforced = 0
            /\ conf_call.last_applied_at # None
            /\ conf_call.now - conf_call.last_applied_at = 21 * 24)
           => conf_call.result = 350

\* the 21-day scenario of the claim has been computed
C3_Witness ==
    /\ Computed
    /\ conf_call.base_confidence = 500
    /\ conf_call.times_reinforced = 0
    /\ conf_call.last_applied_at = 0
    /\ conf_call.now = 21 * 24
    /\ conf_call.result = 350

\* C4: with the other inputs fixed, calculate_confidence never decreases
\* when times_reinforced increases and never increases when the time elapsed
\* since last_applied_at increases.
C4_Monotone ==
    [][ Computed =>
          /\ (/\ conf_call'.times_reinforced > conf_call.times_reinforced
              /\ conf_call'.now = conf_call.now)
             => conf_call'.result >= conf_call.result
          /\ (/\ conf_call'.now > conf_call.now
              /\ conf_call'.times_reinforced = conf_call.times_reinforced)
             => conf_call'.result <= conf_call.result ]_vars

\* a computed value strictly inside the clamp range, after reinforcement and
\* after more than a week without use, so that both directions are exercised
C4_Witness ==
    /\ Computed
    /\ conf_call.times_reinforced >= 5
    /\ conf_call.last_applied_at # None
    /\ conf_call.now - conf_call.last_applied_at >= 168 * 2
    /\ conf_call.result > 100
    /\ conf_call.result < 950

(***************************************************************************)
(* Claims about find_similar_rule (checked under SpecSim).                 *)
(***************************************************************************)
\* the threshold the claim speaks of: the caller's when one is given, the
\* configured one otherwise
ClaimedThreshold ==
    IF sim_call.threshold = None THEN 850 ELSE sim_call.threshold

Qualifies(i) ==
    LET rule == sim_call.existing_rules[i]
    IN  /\ HasKey(rule, "embedding")
        /\ rule.embedding # <<>>
        /\ cosine_similarity(sim_call.new_rule_embedding, rule.embedding)
               >= ClaimedThreshold

\* C5: find_similar_rule returns the first rule in input order that carries
\* an embedding and whose similarity is at or above the threshold given by
\* the caller (the configured threshold when none is given), returns none
\* when no rule reaches it, and never returns a rule without an embedding.
C5_FirstQualifyingRule ==
    sim_call.called =>
        LET n == Len(sim_call.existing_rules)
            matches == {i \in 1..n : Qualifies(i)}
        IN  IF matches = {}
            THEN sim_call.result = <<>>
            ELSE /\ sim_call.result =
                        <<sim_call.existing_rules[
                            CHOOSE i \in matches : \A j \in matches : i <= j]>>
                 /\ HasKey(sim_call.result[1], "embedding")
                 /\ sim_call.result[1].embedding # <<>>

(***************************************************************************)
(* Claims about merge_rules (checked under SpecMerge).                     *)
(***************************************************************************)
MergedKeys == {"times_reinforced", "last_reinforced_at", "confidence"}

C7_MergedRecord ==
    merge_call.called =>
        LET e == merge_call.existing_rule
            m == merge_call.result[1]
        IN  /\ m.times_reinforced = e.times_reinforced + 1
            /\ m.last_reinforced_at = <<"str", merge_call.now>>
            /\ m.confidence = (IF e.confidence + 100 > 950 THEN 950
                               ELSE e.confidence + 100)
            /\ DOMAIN m = DOMAIN e \cup MergedKeys
            /\ \A k \in DOMAIN e \ MergedKeys : m[k] = e[k]
            /\ (e.confidence = 500 /\ e.times_reinforced = 0)
               => (m.confidence = 600 /\ m.times_reinforced = 1)

\* C7: merge_rules returns a new record equal to existing_rule except that
\* times_reinforced is one higher, last_reinforced_at is the current time
\* and confidence is min(0.95, confidence + 0.1); every other field is
\* unchanged and the input record is not modified (0.5 with 0
\* reinforcements becomes 0.6 with 1).
C7_MergeRules ==
    /\ [](C7_MergedRecord)
    /\ [][merge_call'.existing_rule = merge_call.existing_rule]_vars

\* a merge whose sum exceeds the cap has been computed
C7_Witness ==
    /\ merge_call.called
    /\ merge_call.existing_rule.confidence = 900
    /\ merge_call.existing_rule.times_reinforced = 2
    /\ merge_call.result[1].confidence = 950
    /\ merge_call.result[1].times_reinforced = 3

(***************************************************************************)
(* Claims about rank_rules (checked under SpecRank).                       *)
(***************************************************************************)
\* position in the input list of a returned rule (ids are the positions)
InputPos(item) == item[1].id

Eligible == {i \in 1..Len(rank_call.rules) : rank_call.rules[i].confidence >= 300}

\* i comes before j in the claimed order: higher score, or equal score and
\* earlier in the input
Before(si, pi, sj, pj) == si > sj \/ (si = sj /\ pi < pj)

ScoreAt(i) == rule_score(rank_call.rules[i], rank_call.context_embedding, rank_call.now)

\* C10: rank_rules returns only rules with confidence >= confidence_threshold
\* (a rule exactly at the threshold is kept), ordered by score descending
\* with rules of equal score in input order, truncated to the first
\* max_rules of that order.
C10_RankRules ==
    rank_call.called =>
        LET res == rank_call.result
            returned == {InputPos(res[k]) : k \in 1..Len(res)}
        IN  /\ Len(res) = Min(rank_call.max_rules, Cardinality(Eligible))
            /\ Cardinality(returned) = Len(res)
            /\ returned \subseteq Eligible
            /\ \A k \in 1..Len(res) :
                  /\ res[k][1] = rank_call.rules[InputPos(res[k])]
                  /\ res[k][2] = ScoreAt(InputPos(res[k]))
            /\ \A k \in 1..(Len(res) - 1) :
                  Before(res[k][2], InputPos(res[k]), res[k + 1][2], InputPos(res[k + 1]))
            /\ \A i \in Eligible \ returned : \A k \in 1..Len(res) :
                  Before(res[k][2], InputPos(res[k]), ScoreAt(i), i)

\* a ranking with a tie between two rules of different confidence, a rule
\* exactly at the threshold, a rule below it and a truncation
C10_Witness ==
    /\ rank_call.called
    /\ Len(rank_call.rules) = 3
    /\ rank_call.max_rules = 2
    /\ Len(rank_call.result) = 2
    /\ rank_call.result[1][2] = rank_call.result[2][2]
    /\ rank_call.result[1][1].confidence = 300
    /\ rank_call.result[2][1].confidence = 600
    /\ \E i \in 1..3 : rank_call.rules[i].confidence = 250

(***************************************************************************)
(* Claims about process_correction (checked under SpecPipeFair).           *)
(***************************************************************************)
PipelineStatuses == {"extraction_failed", "duplicate_found", "rule_created"}

\* C8: for every combination of success and failure of the extraction call
\* and of the two embedding calls, process_correction terminates and returns
\* exactly one of extraction_failed, duplicate_found, rule_created; it never
\* raises and never returns another status.
C8_PipelineTotal ==
    /\ [](pipe.pc # "raised")
    /\ [](pipe.pc = "returned" => pipe.result.status \in PipelineStatuses)
    /\ <>(pipe.pc = "returned")

\* extraction succeeded and both embedding calls failed: the rule is still
\* returned, without embedding
C8_Witness ==
    /\ pipe.pc = "returned"
    /\ ~pipe.dup_ok
    /\ ~pipe.emb_ok
    /\ pipe.embedding_calls = 2
    /\ pipe.result.status = "rule_created"
    /\ pipe.result.rule.embedding = <<>>

(***************************************************************************)
(* Claims about the durable store (checked under Spec).                    *)
(***************************************************************************)
\* C1: after any sequence of create_rule, reinforce_rule, mark_rule_applied,
\* update_rule, toggle_rule, archive_rule and process_decay runs, with time
\* advancing between them, every stored rule's confidence lies in
\* [0.1, 0.95].
C1_StoredConfidenceInRange ==
    \A id \in DOMAIN rules :
        rules[id].confidence >= 100 /\ rules[id].confidence <= 950

\* a rule that was applied and then swept by the decay job down to the floor
C1_Witness ==
    \E id \in DOMAIN rules :
        /\ rules[id].last_applied_at # None
        /\ rules[id].confidence = 100
        /\ rules[id].status = "archived"
        /\ <<"rule_decayed", rules[id].user_id, id>> \in BagToSet(audit_log)

\* the run of process_feedback that a step has just made
FeedbackStep == last_result'.op = "process_feedback"

\* an active rule of the user that has a vector in the index at or above the
\* similarity threshold to the vector of the given content
SimilarActiveRules(content, user_id) ==
    {id \in DOMAIN rules :
        /\ rules[id].user_id = user_id
        /\ rules[id].status = "active"
        /\ rules[id].embedding_id # None
        /\ cosine_similarity(EmbeddingOf(content),
                             vector_index[rules[id].embedding_id]) >= 850}

\* C6: when process_feedback handles a correction whose extracted rule
\* content has embedding similarity at or above similarity_threshold with an
\* active rule of the same user that was created with an embedding, the
\* pipeline yields duplicate_found, that rule is reinforced
\* (times_reinforced + 1) and no new rule is created.
C6_DuplicateIsReinforced ==
    [][ (/\ FeedbackStep
         /\ last_result'.extraction = "rule"
         /\ last_result'.dup_ok
         /\ SimilarActiveRules(last_result'.content,
                interactions[last_result'.interaction_id].user_id) # {})
        => (/\ last_result'.pipeline = "duplicate_found"
            /\ DOMAIN rules' = DOMAIN rules
            /\ \E id \in SimilarActiveRules(last_result'.content,
                            interactions[last_result'.interaction_id].user_id) :
                  rules'[id].times_reinforced = rules[id].times_reinforced + 1) ]_vars

\* C9: if the extraction service reports the input invalid, returns no rule
\* text or fails, process_correction returns extraction_failed without any
\* embedding call, and process_feedback creates no rule, reinforces no rule,
\* writes no audit event, adds no vector and leaves the interaction
\* unchanged.
C9_ExtractionFailureWritesNothing ==
    [][ (/\ FeedbackStep
         /\ last_result'.extraction \in {"failed", "invalid", "no_rule_text"})
        => (/\ last_result'.pipeline = "extraction_failed"
            /\ last_result'.status = "extraction_failed"
            /\ last_result'.embedding_calls = 0
            /\ rules' = rules
            /\ audit_log' = audit_log
            /\ interactions' = interactions
            /\ vector_index' = vector_index
            /\ next_id' = next_id) ]_vars

\* a correction rejected by the extraction service as invalid, for a user
\* who has an active rule that came from an earlier correction on the same
\* interaction: the interaction still points to that rule and the audit log
\* still holds the creation event only
C9_Witness ==
    /\ last_result.op = "process_feedback"
    /\ last_result.extraction = "invalid"
    /\ last_result.pipeline = "extraction_failed"
    /\ last_result.embedding_calls = 0
    /\ BagCardinality(audit_log) = 1
    /\ \E id \in DOMAIN rules :
        /\ rules[id].status = "active"
        /\ rules[id].times_reinforced = 0
        /\ interactions[last_result.interaction_id].extracted_rule_id = id

\* ---- C11 ----
\* the rules of the rank_rules order, in that order
RankOrder == [i \in 1..Len(rank_rules(select_call.rules, <<>>, 10, select_call.now)) |->
                rank_rules(select_call.rules, <<>>, 10, select_call.now)[i][1]]

\* len(content) // 4 of a rule, from the lengths of the texts
ClaimedCost(rule) ==
    IF ~HasKey(rule, "content") THEN 0
    ELSE CASE rule.content = "Avoid bullet points" -> 4
           [] rule.content = "Do not use bullet lists" -> 5
           [] rule.content = "Be concise" -> 2

RECURSIVE PrefixCost(_, _)
PrefixCost(seq, k) == IF k = 0 THEN 0 ELSE PrefixCost(seq, k - 1) + ClaimedCost(seq[k])

\* C11: select_rules_for_prompt returns the longest prefix of the rank_rules
\* order whose summed cost (len(content) // 4 per rule) is at most
\* max_tokens: the total never exceeds max_tokens and the selection stops at
\* the first rule that would exceed the budget
C11_GreedyPrefix ==
    select_call.called =>
        LET k == Len(select_call.result)
        IN  /\ k <= Len(RankOrder)
            /\ select_call.result = SubSeq(RankOrder, 1, k)
            /\ PrefixCost(RankOrder, k) <= select_call.max_tokens
            /\ k < Len(RankOrder) =>
                    PrefixCost(RankOrder, k + 1) > select_call.max_tokens

\* the selection stopped at a rule over the budget although a later, smaller
\* rule would still have fitted
C11_Witness ==
    /\ select_call.called
    /\ Len(select_call.result) >= 1
    /\ \E j \in (Len(select_call.result) + 2)..Len(RankOrder) :
            PrefixCost(RankOrder, Len(select_call.result)) + ClaimedCost(RankOrder[j])
                <= select_call.max_tokens

\* ---- C20 ----
SectionRules == section_call.rules
SectionLines == section_call.result

\* the header a line of the section stands under ("" when there is none)
GroupOf(i) ==
    LET hs == {h \in 1..i : SectionLines[h].kind = "header"}
    IN  IF hs = {} THEN ""
        ELSE SectionLines[CHOOSE h \in hs : \A k \in hs : k <= h].text

\* the rules as emitted: <<header, content>> of every bullet line, in order
Emitted ==
    LET IsBullet(i) == SectionLines[i].kind = "bullet"
        idx == SelectSeq([i \in 1..Len(SectionLines) |-> i], IsBullet)
    IN  [k \in 1..Len(idx) |-> <<GroupOf(idx[k]), SectionLines[idx[k]].text>>]

ClaimedPrecedence == <<"safety", "logic", "formatting", "style", "tone">>

FirstSeen(c) ==
    CHOOSE i \in 1..Len(SectionRules) :
        /\ SectionRules[i].category = c
        /\ \A j \in 1..(i - 1) : SectionRules[j].category # c

RECURSIVE InFirstSeenOrder(_)
InFirstSeenOrder(cats) ==
    IF cats = {} THEN <<>>
    ELSE LET c == CHOOSE c \in cats : \A d \in cats : FirstSeen(c) <= FirstSeen(d)
         IN  <<c>> \o InFirstSeenOrder(cats \ {c})

\* the groups in the claimed order
ClaimedGroups ==
    LET Present(c) == \E i \in 1..Len(SectionRules) : SectionRules[i].category = c
        listed == {ClaimedPrecedence[k] : k \in 1..Len(ClaimedPrecedence)}
        unlisted == {SectionRules[i].category : i \in 1..Len(SectionRules)} \ listed
    IN  SelectSeq(ClaimedPrecedence, Present) \o InFirstSeenOrder(unlisted)

RECURSIVE ClaimedEmission(_)
ClaimedEmission(groups) ==
    IF groups = <<>> THEN <<>>
    ELSE LET InGroup(rule) == rule.category = Head(groups)
             members == SelectSeq(SectionRules, InGroup)
         IN  [i \in 1..Len(members) |-> <<upper(Head(groups)), members[i].content>>]
             \o ClaimedEmission(Tail(groups))

\* C20: build_rules_section emits every given rule exactly once, grouped by
\* category, the groups in the order safety, logic, formatting, style, tone
\* followed by any other categories in first-seen order, the rules of a
\* group in their input order; so a safety or logic rule stands before
\* every formatting, style or tone rule
C20_GroupedByCategory ==
    section_call.called =>
        /\ Emitted = ClaimedEmission(ClaimedGroups)
        /\ Cardinality({i \in 1..Len(SectionLines) : SectionLines[i].kind = "header"})
               = Len(ClaimedGroups)
        /\ \A i, j \in 1..Len(Emitted) :
               (/\ Emitted[i][1] \in {"SAFETY", "LOGIC"}
                /\ Emitted[j][1] \in {"FORMATTING", "STYLE", "TONE"}) => i < j

\* a logic rule given last is emitted first, before a style rule, and of two
\* unlisted categories the one seen first comes first
C20_Witness ==
    /\ section_call.called
    /\ Len(SectionRules) = 4
    /\ SectionRules[1].category = "style"
    /\ SectionRules[2].category = "persona"
    /\ SectionRules[3].category = "domain"
    /\ SectionRules[4].category = "logic"
    /\ Emitted = <<<<"LOGIC", SectionRules[4].content>>,
                   <<"STYLE", SectionRules[1].content>>,
                   <<"PERSONA", SectionRules[2].content>>,
                   <<"DOMAIN", SectionRules[3].content>>>>

\* ---- C12 ----
\* C12: a process_decay run that directly follows another one, with no
\* time elapsed and no rule applied or reinforced in between, changes no
\* rule's confidence, archives no rule and emits no audit event
C12_DecayIdempotent ==
    [][(last_result.op = "process_decay" /\ last_result'.op = "process_decay")
          => /\ rules' = rules
             /\ audit_log' = audit_log
             /\ last_result'.processed = 0
             /\ last_result'.archived = 0]_vars

\* a sweep found nothing to do right after a sweep that decayed or archived
\* a rule
C12_Witness ==
    /\ last_result.op = "process_decay"
    /\ last_result.after_sweep
    /\ last_result.processed = 0
    /\ last_result.archived = 0
    /\ \E id \in DOMAIN rules : rules[id].confidence # 500

\* ---- C13 ----
\* the rows and audit events of a store value
Durable(S) == [rules |-> S.rules, audit_log |-> S.audit_log]

\* C13 as stated: a sweep that ended with an error, at whatever statement,
\* left none of its confidence changes, status changes or audit events in
\* the durable store
C13_FailedSweepLeavesNothing ==
    txn.sweep.pc = "failed" => Durable(DB) = Durable(txn.sweep.snapshot)

\* C13 as amended: a sweep that ended with an error before its commit
\* completed left nothing in the durable store, and a later sweep from that
\* state gives what it would have given without the failed one; a sweep that
\* ended with an error after its commit, while invalidating caches, left
\* all of its changes
C13_FailedSweepNoneOrAll ==
    txn.sweep.pc = "failed" =>
        IF txn.sweep.failed_at = "loop"
        THEN /\ Durable(DB) = Durable(txn.sweep.snapshot)
             /\ Durable(process_decay(DB, utcnow))
                    = Durable(process_decay(txn.sweep.snapshot, utcnow))
        ELSE Durable(DB) = Durable(process_decay(txn.sweep.snapshot, utcnow))

\* the sweep failed partway through the loop, one rule still to do, with a
\* changed rule and its audit event pending in the session
C13_Witness ==
    /\ txn.sweep.pc = "failed"
    /\ txn.sweep.failed_at = "loop"
    /\ Len(txn.sweep.todo) = 1
    /\ txn.sweep.work.rules # txn.sweep.snapshot.rules
    /\ txn.sweep.work.audit_log # txn.sweep.snapshot.audit_log

\* ---- C14 ----
RuleMutators == {"update_rule", "delete_rule", "toggle_rule", "reinforce_rule",
                 "archive_rule"}

\* the users one of whose rules differs between the store before and after
UsersWithChangedRules ==
    {rules[id].user_id : id \in {id \in DOMAIN rules :
        id \notin DOMAIN rules' \/ rules'[id] # rules[id]}}
    \cup {rules'[id].user_id : id \in DOMAIN rules' \ DOMAIN rules}

\* C14: every operation that mutates a user's rule set (create_rule,
\* reinforce_rule, update_rule, delete_rule, toggle_rule, archive_rule, and a
\* decay sweep that changes the confidence or the status of one of the
\* user's rules) leaves that user's cached rule snapshot absent when it
\* returns
C14_MutationInvalidatesCache ==
    [][/\ (last_result'.op \in RuleMutators /\ last_result'.rule_id \in DOMAIN rules)
            => rule_cache'[rules[last_result'.rule_id].user_id] = CacheMiss
       /\ (last_result'.op = "process_feedback"
              /\ last_result'.status \in {"rule_created", "rule_reinforced"})
            => rule_cache'[interactions[last_result'.interaction_id].user_id] = CacheMiss
       /\ last_result'.op = "process_decay"
            => \A u \in UsersWithChangedRules : rule_cache'[u] = CacheMiss]_vars

RaceStart ==
    IF txn.sweep.snapshot.rules[txn.request.rule_id].times_reinforced
         > txn.request.snapshot.rules[txn.request.rule_id].times_reinforced
    THEN txn.request.snapshot
    ELSE txn.sweep.snapshot

Outcome(rule) == <<rule.times_reinforced, rule.confidence, rule.status>>

\* C16: when a process_decay run and a reinforce_rule call on the same rule
\* have both committed, the rule's stored times_reinforced, confidence and
\* status are those of running the two operations one after the other, in
\* one of the two orders
C16_SerialOutcome ==
    (txn.sweep.pc \in {"invalidate", "done"} /\ txn.request.pc = "done") =>
        LET id == txn.request.rule_id
        IN  Outcome(rules[id]) \in
              {Outcome(reinforce_rule(process_decay(RaceStart, utcnow), id, utcnow).rules[id]),
               Outcome(process_decay(reinforce_rule(RaceStart, id, utcnow), utcnow).rules[id])}

\* ---- C17 ----
\* C17: when a process_feedback request is abandoned or fails before its
\* final commit, nothing it computed persists: the rules, the audit log,
\* the interactions and the vector index are as the request found them
C17_AbandonedRequestLeavesNothing ==
    txn.request.pc = "failed" =>
        /\ rules = txn.request.snapshot.rules
        /\ audit_log = txn.request.snapshot.audit_log
        /\ interactions = txn.request.snapshot.interactions
        /\ vector_index = txn.request.snapshot.vector_index

\* ---- C18 ----
RuleMethods ==
    {"update_rule", "delete_rule", "toggle_rule", "reinforce_rule",
     "mark_rule_applied", "archive_rule"}

NotFound(op) == IF op = "delete_rule" THEN "False" ELSE "None"

\* C18: update_rule, delete_rule, toggle_rule, reinforce_rule,
\* mark_rule_applied and archive_rule addressed to an id that is not in the
\* rule store return None (delete_rule: False), process_feedback addressed
\* to an interaction that does not exist returns status error, and each of
\* them leaves the rules, the audit log and the rule cache as they were;
\* the same operations addressed to an id that exists never return that
\* result
C18_NotFoundIsDistinctAndInert ==
    [][/\ (last_result'.op \in RuleMethods /\ last_result'.rule_id \notin DOMAIN rules)
            => /\ last_result'.returned = NotFound(last_result'.op)
               /\ UNCHANGED <<rules, audit_log, rule_cache>>
       /\ (last_result'.op \in RuleMethods /\ last_result'.rule_id \in DOMAIN rules)
            => last_result'.returned # NotFound(last_result'.op)
       /\ (/\ last_result'.op = "process_feedback"
           /\ last_result'.interaction_id \notin DOMAIN interactions)
            => /\ last_result'.status = "error"
               /\ UNCHANGED <<rules, audit_log, rule_cache, interactions>>
       /\ (/\ last_result'.op = "process_feedback"
           /\ last_result'.interaction_id \in DOMAIN interactions)
            => last_result'.status # "error"]_vars

\* a rule method was addressed to a missing id while the store held a rule
\* and the user's snapshot was cached
C18_Witness ==
    /\ last_result.op \in RuleMethods
    /\ last_result.returned = NotFound(last_result.op)
    /\ last_result.rule_id \notin DOMAIN rules
    /\ rules # <<>>
    /\ \E u \in Users : rule_cache[u].present

\* ---- C19 ----
\* the confidence the sweep is to recompute for a rule: base 0.5 plus 0.1
\* per reinforcement (at most 0.45) minus 0.05 per whole week since the rule
\* was last applied (at most 0.4), kept within 0.1 and 0.95
ClaimedRecomputed(rule) ==
    LET penalty == IF rule.last_applied_at = None THEN 0
                   ELSE Min(FloorDiv(FloorDiv(utcnow - rule.last_applied_at, 24), 7) * 50,
                            400)
        raw == 500 + Min(rule.times_reinforced * 100, 450) - penalty
    IN  IF raw < 100 THEN 100 ELSE IF raw > 950 THEN 950 ELSE raw

\* the events of one type that the step adds for one rule
NewEvents(event_type, id) ==
    CopiesIn(<<event_type, rules[id].user_id, id>>, audit_log')
    - CopiesIn(<<event_type, rules[id].user_id, id>>, audit_log)

\* C19: in one process_decay run every active rule gets its recomputed
\* confidence stored, with one decay event, exactly when that value differs
\* from the stored one by more than 0.01, and is archived, with one archive
\* event, exactly when the recomputed value is below 0.2 (0.18 is, 0.21 is
\* not), whether or not the confidence changed; rules that are not active
\* are left as they are, and no other event is written
C19_DecayPerRule ==
    [][last_result'.op = "process_decay" =>
         /\ DOMAIN rules' = DOMAIN rules
         /\ \A id \in DOMAIN rules :
              IF rules[id].status = "active"
              THEN LET new == ClaimedRecomputed(rules[id])
                       changed == Abs(new - rules[id].confidence) > 10
                       archive == new < 200
                   IN  /\ rules'[id] =
                             [rules[id] EXCEPT
                                !.confidence = IF changed THEN new ELSE @,
                                !.status = IF archive THEN "archived" ELSE @]
                       /\ NewEvents("rule_decayed", id) = IF changed THEN 1 ELSE 0
                       /\ NewEvents("rule_archived", id) = IF archive THEN 1 ELSE 0
              ELSE /\ rules'[id] = rules[id]
                   /\ NewEvents("rule_decayed", id) = 0
                   /\ NewEvents("rule_archived", id) = 0
         /\ BagCardinality(audit_log') - BagCardinality(audit_log)
              = last_result'.processed + last_result'.archived
         /\ should_archive_rule(180)
         /\ ~should_archive_rule(210)]_vars

\* a sweep archived a rule whose stored confidence it did not change
C19_Witness ==
    /\ last_result.op = "process_decay"
    /\ last_result.processed = 0
    /\ last_result.archived = 1
    /\ \E id \in DOMAIN rules :
        /\ rules[id].status = "archived"
        /\ rules[id].confidence < 200

\* ---- C21 ----
\* the messages that contain a listed keyword, in whatever case
MessagesWithKeyword ==
    {<<"dont", "use", "bullet", "points">>, <<"STOP", "that">>,
     <<"Please", "use", "tabs">>, <<"add", "a", "prefix">>}

\* C21: when the detection call fails, a message that contains a listed
\* keyword is detected as (true, style, 0.5) and process_feedback goes on to
\* rule extraction; a message without a keyword is detected as not a
\* correction with confidence 0.0 and process_feedback returns
\* not_a_correction without calling rule extraction or embedding
C21_KeywordFallback ==
    (/\ last_result.op = "process_feedback"
     /\ last_result.status # "error"
     /\ last_result.detect_raised) =>
        IF last_result.correction \in MessagesWithKeyword
        THEN /\ last_result.detected =
                   [is_correction |-> TRUE, correction_type |-> "style",
                    confidence |-> 500]
             /\ last_result.extraction # "not_called"
             /\ last_result.status \in {"rule_created", "rule_reinforced",
                                        "extraction_failed"}
        ELSE /\ ~last_result.detected.is_correction
             /\ last_result.detected.confidence = 0
             /\ last_result.status = "not_a_correction"
             /\ last_result.extraction = "not_called"
             /\ last_result.embedding_calls = 0

\* the detection call failed, the keyword was written with a capital and
\* spans two words, and a rule was created
C21_Witness ==
    /\ last_result.op = "process_feedback"
    /\ last_result.detect_raised
    /\ last_result.correction = <<"Please", "use", "tabs">>
    /\ last_result.status = "rule_created"

\* ---- C22 ----
\* C22: when rule extraction gives a rule and the embedding service fails
\* (in the duplicate check and in the embedding step), process_correction
\* returns rule_created and process_feedback stores the rule as active with
\* confidence 0.5, without an embedding and without adding to the vector
\* index; whichever embedding call fails, an extracted rule never ends in
\* extraction_failed
C22_EmbeddingFailureIsNotFatal ==
    [][(last_result'.op = "process_feedback" /\ last_result'.extraction = "rule") =>
         /\ last_result'.status \in {"rule_created", "rule_reinforced"}
         /\ (~last_result'.dup_ok /\ ~last_result'.emb_ok) =>
              /\ last_result'.pipeline = "rule_created"
              /\ last_result'.status = "rule_created"
              /\ DOMAIN rules' = DOMAIN rules \cup {next_id}
              /\ next_id \notin DOMAIN rules
              /\ rules'[next_id].status = "active"
              /\ rules'[next_id].confidence = 500
              /\ rules'[next_id].embedding_id = None
              /\ vector_index' = vector_index]_vars

\* with both embedding calls failing, a rule was stored next to a rule that
\* has an embedding, and the vector index holds only the older rule's entry
C22_Witness ==
    /\ last_result.op = "process_feedback"
    /\ last_result.status = "rule_created"
    /\ ~last_result.dup_ok
    /\ ~last_result.emb_ok
    /\ \E id \in DOMAIN rules : rules[id].embedding_id = None
    /\ \E id \in DOMAIN rules : rules[id].embedding_id # None
    /\ Len(vector_index) < Len(rules)

\* ---- C23 ----
\* C23: reinforce_rule on an existing rule raises times_reinforced by one
\* and never lowers the stored confidence: afterwards the confidence is
\* higher than before, or equal when it was already 0.95
C23_ReinforceNeverLowers ==
    [][(last_result'.op = "reinforce_rule" /\ last_result'.rule_id \in DOMAIN rules) =>
         LET id == last_result'.rule_id
         IN  /\ rules'[id].times_reinforced = rules[id].times_reinforced + 1
             /\ \/ rules'[id].confidence > rules[id].confidence
                \/ /\ rules'[id].confidence = rules[id].confidence
                   /\ rules[id].confidence = 950]_vars

\* ---- C24 ----
\* the cached snapshot of a user, when there is one, lists the user's active
\* rules as the durable store has them
CacheReflectsStore(user_id) ==
    (rule_cache[user_id].present /\ Truthy(rule_cache[user_id].data)) =>
        {rule_cache[user_id].data[i] : i \in DOMAIN rule_cache[user_id].data}
          = {to_dict(rules[id]) : id \in active_ids(DB, user_id)}

\* what a get_rules_for_prompt call without context returns when it finds
\* the user's snapshot in the cache
ReturnedFromCache(user_id) ==
    LET selected == select_rules_for_prompt(rule_cache[user_id].data, <<>>, 500, utcnow)
    IN  {selected[i].id : i \in DOMAIN Take(selected, 10)}

\* C24: once a mutating request has committed, the cache holds no snapshot
\* from before the mutation, and a get_rules_for_prompt that starts after
\* the commit returns only rules that are active in the durable store
C24_NoStaleReadAfterCommit ==
    txn.request.pc = "done" =>
        \A u \in Users :
            /\ CacheReflectsStore(u)
            /\ (rule_cache[u].present /\ Truthy(rule_cache[u].data)) =>
                 \A id \in ReturnedFromCache(u) :
                     id \in DOMAIN rules /\ rules[id].status = "active"

\* ---- C25 ----
\* the rules that the step archives
NewlyArchived ==
    {id \in DOMAIN rules' :
        /\ rules'[id].status = "archived"
        /\ id \in DOMAIN rules => rules[id].status # "archived"}

\* C25: a rule's status becomes archived only in a process_decay run, in
\* archive_rule or in an update_rule called with status archived, and
\* get_rules_for_prompt changes no field of any rule
C25_ArchivedOnlyExplicitly ==
    [][/\ NewlyArchived # {} =>
            \/ last_result'.op \in {"process_decay", "archive_rule"}
            \/ last_result'.op = "update_rule" /\ last_result'.status = "archived"
       /\ last_result'.op = "get_rules_for_prompt" => rules' = rules]_vars

\* a selection left out an active rule whose confidence is below the
\* selection threshold, and the rule is still active
C25_Witness ==
    /\ last_result.op = "get_rules_for_prompt"
    /\ last_result.returned = <<>>
    /\ \E id \in DOMAIN rules :
        /\ rules[id].status = "active"
        /\ rules[id].user_id = last_result.user_id
        /\ rules[id].confidence < confidence_threshold

\* ---- C26 ----
\* C26: the only status transitions toggle_rule performs are active to
\* disabled and disabled to active; the status of an archived rule is never
\* changed to active
C26_ToggleOnlyActiveDisabled ==
    [][(last_result'.op = "toggle_rule" /\ last_result'.rule_id \in DOMAIN rules) =>
         <<rules[last_result'.rule_id].status, rules'[last_result'.rule_id].status>>
            \in {<<"active", "disabled">>, <<"disabled", "active">>}]_vars

C28_FailedExtractionIsRetried ==
    [][/\ (/\ last_result'.op = "process_feedback"
           /\ last_result'.status = "extraction_failed")
            => /\ interactions'[last_result'.interaction_id].was_corrected
               /\ interactions'[last_result'.interaction_id].correction_text # <<>>
               /\ interactions'[last_result'.interaction_id].extracted_rule_id = None
       /\ last_result'.op = "process_pending_extractions"
            => \A i \in DOMAIN interactions :
                  interactions[i].extracted_rule_id # None
                      => interactions'[i] = interactions[i]]_vars

\* ---- C29 ----
suffixes(messages) == {SubSeq(messages, k, Len(messages)) : k \in 1..(Len(messages) + 1)}

\* the leading system message, when there is one, followed by a contiguous
\* suffix of the remaining messages in their original order
system_then_suffix(messages, result) ==
    IF messages # <<>> /\ messages[1].role = "system"
    THEN \E rest \in suffixes(Tail(messages)) : result = <<messages[1]>> \o rest
    ELSE result \in suffixes(messages)

\* C29: for every message list and every max_tokens the list returned by
\* truncate_for_context fits the limit (estimate_tokens of it is at most
\* max_tokens) and is the leading system message, when there is one, followed
\* by a contiguous suffix of the remaining messages in their original order
C29_TruncateFitsAndKeepsSuffix ==
    truncate_call.called
        => /\ estimate_tokens(truncate_call.result) <= truncate_call.max_tokens
           /\ system_then_suffix(truncate_call.messages, truncate_call.result)

\* ---- C30 ----
\* the committed calls of a method on a rule: each call logs one event, which
\* its commit inserts
committed_calls(event_type, rule_id) ==
    CopiesIn(<<event_type, rules[rule_id].user_id, rule_id>>, audit_log)

\* C30: counter updates are not lost under concurrency: in every
\* interleaving of the requests a rule's times_reinforced is the number of
\* committed reinforce_rule calls on it and its times_applied the number of
\* committed mark_rule_applied calls on it
C30_NoLostCounterUpdate ==
    \A rule_id \in DOMAIN rules :
        /\ rules[rule_id].times_reinforced = committed_calls("rule_reinforced", rule_id)
        /\ rules[rule_id].times_applied = committed_calls("rule_applied", rule_id)

====
